---- MODULE Spec2Model ----
(***************************************************************************)
(* A2UI protocol interpreter (class A2UIRenderer): the surface store, the  *)
(* message processor, the path resolver and the tree renderer.             *)
(*                                                                         *)
(* JavaScript values are modelled as tagged records.  Objects live in a    *)
(* heap and are referred to by address, because the interpreter stores     *)
(* references to the objects carried by the messages and later mutates     *)
(* them in place.  Strings are sequences of one-character strings, so that *)
(* split, startsWith, slice and concatenation are computed, not assumed.   *)
(***************************************************************************)
EXTENDS Integers, Sequences, FiniteSets, TLC

VARIABLES surfaces, heap, messages, pos, entry, before, threw, count, rendered,
          shell

vars == <<surfaces, heap, messages, pos, entry, before, threw, count, rendered,
          shell>>

(***************************************************************************)
(* Bounds of the model.                                                    *)
(***************************************************************************)
\* number of messages one renderer processes in a behaviour
MaxMsgs == 3
\* length of the arrays drawn in SpecBatch
MaxBatch == 3
\* depth at which the recursion of renderComponent exhausts the call stack
MaxDepth == 4
\* calls of renderSurface recorded in a row
MaxRenders == 2

(***************************************************************************)
(* JavaScript values.                                                      *)
(***************************************************************************)
Undef == [t |-> "undefined"]
Null == [t |-> "null"]
Num(n) == [t |-> "number", n |-> n]
Str(s) == [t |-> "string", s |-> s]
Bool(b) == [t |-> "boolean", b |-> b]
Ref(a) == [t |-> "ref", a |-> a]
\* a field that a JSON object does not carry
None == [absent |-> TRUE]

\* JSON text of an object: property names in order, and their values
Obj(keys, val) == [t |-> "object", keys |-> keys, val |-> val]
\* JSON text of an array
Arr(items) == [t |-> "array", items |-> items]

IsObject(v) == v.t = "ref"

\* ToBoolean
Truthy(v) ==
  CASE v.t = "undefined" -> FALSE
    [] v.t = "null" -> FALSE
    [] v.t = "number" -> v.n # 0
    [] v.t = "string" -> v.s # <<>>
    [] v.t = "boolean" -> v.b
    [] OTHER -> TRUE

(***************************************************************************)
(* Insertion-ordered tables: Map objects and the own properties of plain   *)
(* objects.  keys is the insertion order, val the lookup.                  *)
(***************************************************************************)
EmptyMap == [keys |-> <<>>, val |-> <<>>]
MapHas(m, k) == k \in DOMAIN m.val
MapGet(m, k) == IF MapHas(m, k) THEN m.val[k] ELSE Undef
MapSet(m, k, v) ==
  [keys |-> IF MapHas(m, k) THEN m.keys ELSE Append(m.keys, k),
   val |-> (k :> v) @@ m.val]
MapDelete(m, k) ==
  [keys |-> SelectSeq(m.keys, LAMBDA x : x # k),
   val |-> [x \in (DOMAIN m.val) \ {k} |-> m.val[x]]]

(***************************************************************************)
(* Strings used by the interpreter.                                        *)
(***************************************************************************)
\* the ids of surfaces, catalogs and components that the messages carry
Id ==
  [s1 |-> <<"s", "1">>,
   s2 |-> <<"s", "2">>,
   catA |-> <<"c", "a", "t", "A">>,
   catB |-> <<"c", "a", "t", "B">>,
   root |-> <<"r", "o", "o", "t">>,
   x |-> <<"x">>,
   t |-> <<"t">>,
   y |-> <<"y">>,
   m |-> <<"m">>,
   k |-> <<"k">>,
   u |-> <<"u">>]
\* the property names of the data models
Key ==
  [a |-> <<"a">>,
   b |-> <<"b">>,
   c |-> <<"c">>,
   d |-> <<"d">>,
   items |-> <<"i", "t", "e", "m", "s">>,
   name |-> <<"n", "a", "m", "e">>,
   tags |-> <<"t", "a", "g", "s">>]
\* the separator of paths, and the paths the messages and bindings carry
Path ==
  [a |-> <<"/", "a">>,
   ab |-> <<"/", "a", "/", "b">>,
   c |-> <<"/", "c">>,
   items |-> <<"/", "i", "t", "e", "m", "s">>,
   name |-> <<"/", "n", "a", "m", "e">>,
   relName |-> <<".", "/", "n", "a", "m", "e">>,
   itemName |-> <<"/", "i", "t", "e", "m", "s", "/", "1", "/", "n", "a", "m", "e">>,
   relTags |-> <<".", "/", "t", "a", "g", "s">>,
   slash |-> <<"/">>]
\* literal strings, ops and unknown names of the messages; the string of
\* undefined; the messages of the errors of send; the text of a suggestion
Word ==
  [hi |-> <<"h", "i">>,
   remove |-> <<"r", "e", "m", "o", "v", "e">>,
   add |-> <<"a", "d", "d">>,
   replace |-> <<"r", "e", "p", "l", "a", "c", "e">>,
   ann |-> <<"A", "n", "n">>,
   bob |-> <<"B", "o", "b">>,
   litA |-> <<"A">>,
   gauge |-> <<"G", "a", "u", "g", "e">>,
   weird |-> <<"w", "e", "i", "r", "d">>,
   undefined |-> <<"u", "n", "d", "e", "f", "i", "n", "e", "d">>,
   failedToFetch |-> <<"F", "a", "i", "l", "e", "d", " ", "t", "o", " ", "f", "e", "t", "c", "h">>,
   failedToSend |-> <<"F", "a", "i", "l", "e", "d", " ", "t", "o", " ", "s", "e", "n", "d", " ", "m", "e", "s", "s", "a", "g", "e">>,
   suggestion |-> <<"C", "r", "e", "a", "t", "e">>]
\* the component types renderComponent switches on
Type ==
  [text |-> <<"T", "e", "x", "t">>,
   card |-> <<"C", "a", "r", "d">>,
   divider |-> <<"D", "i", "v", "i", "d", "e", "r">>,
   image |-> <<"I", "m", "a", "g", "e">>,
   icon |-> <<"I", "c", "o", "n">>,
   row |-> <<"R", "o", "w">>,
   column |-> <<"C", "o", "l", "u", "m", "n">>,
   list |-> <<"L", "i", "s", "t">>,
   button |-> <<"B", "u", "t", "t", "o", "n">>,
   textField |-> <<"T", "e", "x", "t", "F", "i", "e", "l", "d">>,
   slider |-> <<"S", "l", "i", "d", "e", "r">>,
   checkBox |-> <<"C", "h", "e", "c", "k", "B", "o", "x">>]
\* the property names the interpreter reads
Prop ==
  [id |-> <<"i", "d">>,
   type |-> <<"t", "y", "p", "e">>,
   length |-> <<"l", "e", "n", "g", "t", "h">>,
   textProp |-> <<"t", "e", "x", "t">>,
   child |-> <<"c", "h", "i", "l", "d">>,
   path |-> <<"p", "a", "t", "h">>,
   literalString |-> <<"l", "i", "t", "e", "r", "a", "l", "S", "t", "r", "i", "n", "g">>,
   usageHint |-> <<"u", "s", "a", "g", "e", "H", "i", "n", "t">>,
   url |-> <<"u", "r", "l">>,
   nameProp |-> <<"n", "a", "m", "e">>,
   children |-> <<"c", "h", "i", "l", "d", "r", "e", "n">>,
   distribution |-> <<"d", "i", "s", "t", "r", "i", "b", "u", "t", "i", "o", "n">>,
   alignment |-> <<"a", "l", "i", "g", "n", "m", "e", "n", "t">>,
   direction |-> <<"d", "i", "r", "e", "c", "t", "i", "o", "n">>,
   primary |-> <<"p", "r", "i", "m", "a", "r", "y">>,
   label |-> <<"l", "a", "b", "e", "l">>,
   textFieldType |-> <<"t", "e", "x", "t", "F", "i", "e", "l", "d", "T", "y", "p", "e">>,
   axis |-> <<"a", "x", "i", "s">>,
   valueProp |-> <<"v", "a", "l", "u", "e">>,
   minValue |-> <<"m", "i", "n", "V", "a", "l", "u", "e">>,
   maxValue |-> <<"m", "a", "x", "V", "a", "l", "u", "e">>,
   fit |-> <<"f", "i", "t">>,
   explicitList |-> <<"e", "x", "p", "l", "i", "c", "i", "t", "L", "i", "s", "t">>,
   template |-> <<"t", "e", "m", "p", "l", "a", "t", "e">>,
   componentId |-> <<"c", "o", "m", "p", "o", "n", "e", "n", "t", "I", "d">>,
   dataBinding |-> <<"d", "a", "t", "a", "B", "i", "n", "d", "i", "n", "g">>,
   literalNumber |-> <<"l", "i", "t", "e", "r", "a", "l", "N", "u", "m", "b", "e", "r">>,
   literalBoolean |-> <<"l", "i", "t", "e", "r", "a", "l", "B", "o", "o", "l", "e", "a", "n">>,
   literalArray |-> <<"l", "i", "t", "e", "r", "a", "l", "A", "r", "r", "a", "y">>]
\* the string literals of the renderer: hints, tags, CSS values, defaults
Lit ==
  [h1 |-> <<"h", "1">>,
   body |-> <<"b", "o", "d", "y">>,
   h2 |-> <<"h", "2">>,
   h3 |-> <<"h", "3">>,
   h4 |-> <<"h", "4">>,
   h5 |-> <<"h", "5">>,
   caption |-> <<"c", "a", "p", "t", "i", "o", "n">>,
   span |-> <<"s", "p", "a", "n">>,
   pTag |-> <<"p">>,
   mediumFeature |-> <<"m", "e", "d", "i", "u", "m", "F", "e", "a", "t", "u", "r", "e">>,
   cover |-> <<"c", "o", "v", "e", "r">>,
   start |-> <<"s", "t", "a", "r", "t">>,
   end |-> <<"e", "n", "d">>,
   center |-> <<"c", "e", "n", "t", "e", "r">>,
   spaceBetween |-> <<"s", "p", "a", "c", "e", "B", "e", "t", "w", "e", "e", "n">>,
   spaceAround |-> <<"s", "p", "a", "c", "e", "A", "r", "o", "u", "n", "d">>,
   spaceEvenly |-> <<"s", "p", "a", "c", "e", "E", "v", "e", "n", "l", "y">>,
   stretch |-> <<"s", "t", "r", "e", "t", "c", "h">>,
   vertical |-> <<"v", "e", "r", "t", "i", "c", "a", "l">>,
   horizontal |-> <<"h", "o", "r", "i", "z", "o", "n", "t", "a", "l">>,
   shortText |-> <<"s", "h", "o", "r", "t", "T", "e", "x", "t">>,
   longText |-> <<"l", "o", "n", "g", "T", "e", "x", "t">>,
   numberWord |-> <<"n", "u", "m", "b", "e", "r">>,
   date |-> <<"d", "a", "t", "e">>,
   obscured |-> <<"o", "b", "s", "c", "u", "r", "e", "d">>,
   password |-> <<"p", "a", "s", "s", "w", "o", "r", "d">>,
   help |-> <<"h", "e", "l", "p">>,
   true |-> <<"t", "r", "u", "e">>,
   false |-> <<"f", "a", "l", "s", "e">>,
   null |-> <<"n", "u", "l", "l">>,
   flexStart |-> <<"f", "l", "e", "x", "-", "s", "t", "a", "r", "t">>,
   flexEnd |-> <<"f", "l", "e", "x", "-", "e", "n", "d">>,
   spaceBetweenCss |-> <<"s", "p", "a", "c", "e", "-", "b", "e", "t", "w", "e", "e", "n">>,
   spaceAroundCss |-> <<"s", "p", "a", "c", "e", "-", "a", "r", "o", "u", "n", "d">>,
   spaceEvenlyCss |-> <<"s", "p", "a", "c", "e", "-", "e", "v", "e", "n", "l", "y">>,
   objectObject |-> <<"[", "o", "b", "j", "e", "c", "t", " ", "O", "b", "j", "e", "c", "t", "]">>,
   textInput |-> <<"t", "e", "x", "t">>]
UpperCase == <<"A", "B", "C", "D", "E", "F", "G", "H", "I", "J", "K", "L", "M", "N", "O", "P", "Q", "R", "S", "T", "U", "V", "W", "X", "Y", "Z">>
LowerCase == <<"a", "b", "c", "d", "e", "f", "g", "h", "i", "j", "k", "l", "m", "n", "o", "p", "q", "r", "s", "t", "u", "v", "w", "x", "y", "z">>

\* String.prototype.split('/')
RECURSIVE split(_)
split(s) ==
  IF s = <<>> THEN << <<>> >>
  ELSE LET r == split(Tail(s))
       IN IF Head(s) = "/" THEN << <<>> >> \o r
          ELSE << <<Head(s)>> \o Head(r) >> \o Tail(r)

\* a split that drops the part before the first slash and keeps the others,
\* the empty ones as well
partsAfterFirst(path) == Tail(split(path))

\* path.split('/').filter(p => p)
parts(path) == SelectSeq(split(path), LAMBDA p : p # <<>>)

(***************************************************************************)
(* The heap: a sequence of objects, an address is an index.  An object is  *)
(* its own properties and whether it is an Array.  Property names          *)
(* inherited from the prototypes (constructor, toString, ...) are not in   *)
(* the alphabet of the model and are left out.                             *)
(***************************************************************************)
EmptyObject == [isArray |-> FALSE, props |-> EmptyMap]

Digits == <<"0", "1", "2", "3", "4", "5", "6", "7", "8", "9">>
DigitValue(ch) == (CHOOSE i \in 1..10 : Digits[i] = ch) - 1
IsDigit(ch) == \E i \in 1..10 : Digits[i] = ch

\* String(n) for an integer n >= 0
RECURSIVE numToChars(_)
numToChars(n) ==
  IF n < 10 THEN <<Digits[n + 1]>>
  ELSE numToChars(n \div 10) \o <<Digits[(n % 10) + 1]>>

RECURSIVE charsToNum(_)
charsToNum(s) ==
  IF s = <<>> THEN 0
  ELSE 10 * charsToNum(SubSeq(s, 1, Len(s) - 1)) + DigitValue(s[Len(s)])

\* a property name that is an array index ("0", "1", "10"; not "01", not "")
IsIndex(k) ==
  /\ k # <<>>
  /\ \A i \in 1..Len(k) : IsDigit(k[i])
  /\ Len(k) > 1 => k[1] # "0"

\* arr.length: one more than the largest index
ArrayLength(o) ==
  LET idx == {charsToNum(k) : k \in {x \in DOMAIN o.props.val : IsIndex(x)}}
  IN IF idx = {} THEN 0 ELSE 1 + CHOOSE m \in idx : \A n \in idx : n <= m

\* obj[key] = value
HeapSet(h, a, key, value) ==
  [h EXCEPT ![a].props = MapSet(h[a].props, key, value)]

\* key in obj
HasProperty(h, a, key) ==
  MapHas(h[a].props, key) \/ (h[a].isArray /\ key = Prop.length)

\* obj[key]
GetProperty(h, a, key) ==
  IF MapHas(h[a].props, key) THEN h[a].props.val[key]
  ELSE IF h[a].isArray /\ key = Prop.length THEN Num(ArrayLength(h[a]))
  ELSE Undef

\* the index names of a table in ascending order
RECURSIVE indexKeys(_, _, _)
indexKeys(m, n, bound) ==
  IF n >= bound THEN <<>>
  ELSE (IF MapHas(m, numToChars(n)) THEN <<numToChars(n)>> ELSE <<>>)
         \o indexKeys(m, n + 1, bound)

\* Object.keys(obj): the index names ascending, then the others as inserted
ObjectKeys(h, a) ==
  indexKeys(h[a].props, 0, ArrayLength(h[a]))
    \o SelectSeq(h[a].props.keys, LAMBDA k : ~IsIndex(k))

\* JSON.parse of one value: every object and array of the text becomes a new
\* object
RECURSIVE parseValue(_, _), parseProps(_, _, _, _), parseItems(_, _, _, _)
parseValue(h, j) ==
  IF j.t = "object"
  THEN LET r == parseProps(h, j, 1, EmptyMap)
       IN [heap |-> Append(r.heap, [isArray |-> FALSE, props |-> r.props]),
           v |-> Ref(Len(r.heap) + 1)]
  ELSE IF j.t = "array"
  THEN LET r == parseItems(h, j, 1, EmptyMap)
       IN [heap |-> Append(r.heap, [isArray |-> TRUE, props |-> r.props]),
           v |-> Ref(Len(r.heap) + 1)]
  ELSE [heap |-> h, v |-> j]
parseProps(h, j, i, acc) ==
  IF i > Len(j.keys) THEN [heap |-> h, props |-> acc]
  ELSE LET k == j.keys[i]
           c == parseValue(h, j.val[k])
       IN parseProps(c.heap, j, i + 1, MapSet(acc, k, c.v))
parseItems(h, j, i, acc) ==
  IF i > Len(j.items) THEN [heap |-> h, props |-> acc]
  ELSE LET c == parseValue(h, j.items[i])
       IN parseItems(c.heap, j, i + 1, MapSet(acc, numToChars(i - 1), c.v))

\* the value as a tree: what hangs below it in the heap, property by property
RECURSIVE Tree(_, _)
Tree(h, v) ==
  IF v.t # "ref" THEN v
  ELSE [t |-> "object", isArray |-> h[v.a].isArray, keys |-> h[v.a].props.keys,
        val |-> [k \in DOMAIN h[v.a].props.val |-> Tree(h, h[v.a].props.val[k])]]

(***************************************************************************)
(* Path resolver.                                                          *)
(***************************************************************************)
\* the loop of setValueAtPath from index i on; a TypeError leaves the heap
\* as it is at that point
\* a set that makes a new object at every step of the walk, whether or not
\* the key is there
RECURSIVE setWalkFresh(_, _, _, _, _)
setWalkFresh(h, current, ps, i, value) ==
  IF i < Len(ps)
  THEN IF ~IsObject(current) THEN [heap |-> h, threw |-> TRUE]
       ELSE LET h1 == Append(h, EmptyObject)
                h2 == HeapSet(h1, current.a, ps[i], Ref(Len(h1)))
            IN setWalkFresh(h2, Ref(Len(h1)), ps, i + 1, value)
  ELSE IF ~IsObject(current) THEN [heap |-> h, threw |-> TRUE]
       ELSE [heap |-> HeapSet(h, current.a,
                              IF ps = <<>> THEN Word.undefined ELSE ps[Len(ps)],
                              value),
             threw |-> FALSE]

\* a set that makes no intermediate object: the last part is set on the
\* object the walk starts from
setWalkFlat(h, current, ps, i, value) ==
  IF ~IsObject(current) THEN [heap |-> h, threw |-> TRUE]
  ELSE [heap |-> HeapSet(h, current.a,
                         IF ps = <<>> THEN Word.undefined ELSE ps[Len(ps)],
                         value),
        threw |-> FALSE]

RECURSIVE setWalk(_, _, _, _, _)
setWalk(h, current, ps, i, value) ==
  IF i < Len(ps)
  THEN IF ~IsObject(current) THEN [heap |-> h, threw |-> TRUE]
       ELSE IF ~HasProperty(h, current.a, ps[i])
            THEN LET h1 == Append(h, EmptyObject)
                     h2 == HeapSet(h1, current.a, ps[i], Ref(Len(h1)))
                 IN setWalk(h2, Ref(Len(h1)), ps, i + 1, value)
            ELSE setWalk(h, GetProperty(h, current.a, ps[i]), ps, i + 1, value)
  ELSE IF ~IsObject(current) THEN [heap |-> h, threw |-> TRUE]
       ELSE [heap |-> HeapSet(h, current.a,
                              IF ps = <<>> THEN Word.undefined ELSE ps[Len(ps)],
                              value),
             threw |-> FALSE]

setValueAtPath(h, obj, path, value) == setWalk(h, obj, parts(path), 1, value)

RECURSIVE getWalk(_, _, _, _)
getWalk(h, current, ps, i) ==
  IF i > Len(ps) THEN current
  ELSE IF current.t \in {"null", "undefined"} THEN Undef
       ELSE IF IsObject(current)
            THEN getWalk(h, GetProperty(h, current.a, ps[i]), ps, i + 1)
            ELSE Undef

getValueAtPath(h, obj, path) == getWalk(h, obj, parts(path), 1)

(***************************************************************************)
(* Surface store and message processor.                                    *)
(* A message is the record of its four optional fields, None when the      *)
(* field is absent.  A surface is the record kept in the surfaces Map.     *)
(* Every operation yields the surfaces Map, the heap, and whether it threw.*)
(***************************************************************************)
Outcome(s, h, t) == [surfaces |-> s, heap |-> h, threw |-> t]

\* a createSurface that keeps the components and the data model of a surface
\* that is there already
createSurfaceKeeping(s, h, p) ==
  IF MapHas(s, p.surfaceId)
  THEN Outcome(MapSet(s, p.surfaceId,
                      [s.val[p.surfaceId] EXCEPT !.catalogId = p.catalogId]),
               h, FALSE)
  ELSE Outcome(MapSet(s, p.surfaceId,
                      [surfaceId |-> p.surfaceId,
                       catalogId |-> p.catalogId,
                       components |-> EmptyMap,
                       dataModel |-> Ref(Len(h) + 1)]),
               Append(h, EmptyObject), FALSE)

\* lines 836-842: this.surfaces.set(id, {surfaceId, catalogId, new Map(), {}})
createSurface(s, h, p) ==
  Outcome(MapSet(s, p.surfaceId,
                 [surfaceId |-> p.surfaceId,
                  catalogId |-> p.catalogId,
                  components |-> EmptyMap,
                  dataModel |-> Ref(Len(h) + 1)]),
          Append(h, EmptyObject), FALSE)

\* a loop that keeps the component an id has already
RECURSIVE setComponentsFirstWins(_, _, _)
setComponentsFirstWins(cm, items, i) ==
  IF i > Len(items) THEN cm
  ELSE setComponentsFirstWins(
         IF MapHas(cm, MapGet(items[i], Prop.id)) THEN cm
         ELSE MapSet(cm, MapGet(items[i], Prop.id), items[i]),
         items, i + 1)

\* a loop that keeps each component under its place in the array
RECURSIVE setComponentsByPlace(_, _, _)
setComponentsByPlace(cm, items, i) ==
  IF i > Len(items) THEN cm
  ELSE setComponentsByPlace(MapSet(cm, Str(numToChars(i - 1)), items[i]),
                            items, i + 1)

\* lines 846-848: for (const component of components) components.set(id, component)
RECURSIVE setComponents(_, _, _)
setComponents(cm, items, i) ==
  IF i > Len(items) THEN cm
  ELSE setComponents(MapSet(cm, MapGet(items[i], Prop.id), items[i]), items, i + 1)

\* an updateComponents that makes the surface it does not find
updateComponentsCreating(s, h, p) ==
  LET found == MapGet(s, p.surfaceId)
      surface == IF found # Undef THEN found
                 ELSE [surfaceId |-> p.surfaceId, catalogId |-> Undef,
                       components |-> EmptyMap, dataModel |-> Null]
  IN IF p.components.t # "array" THEN Outcome(s, h, TRUE)
     ELSE Outcome(MapSet(s, p.surfaceId,
                         [surface EXCEPT !.components =
                            setComponents(surface.components, p.components.items, 1)]),
                  h, FALSE)

\* lines 843-849
updateComponents(s, h, p) ==
  LET surface == MapGet(s, p.surfaceId)
  IN IF surface = Undef THEN Outcome(s, h, FALSE)
     ELSE IF p.components.t # "array" THEN Outcome(s, h, TRUE)
     ELSE Outcome(MapSet(s, p.surfaceId,
                         [surface EXCEPT !.components =
                            setComponents(surface.components, p.components.items, 1)]),
                  h, FALSE)

\* an updateDataModel that hands the root path to setValueAtPath as well
updateDataModelAlwaysPath(s, h, p) ==
  LET surface == MapGet(s, p.surfaceId)
  IN IF surface = Undef \/ p.value = Undef THEN Outcome(s, h, FALSE)
     ELSE LET path == IF Truthy(p.path) THEN p.path.s ELSE Path.slash
              r == setValueAtPath(h, surface.dataModel, path, p.value)
          IN Outcome(s, r.heap, r.threw)

\* an updateDataModel that does not look at the value before it sets it
updateDataModelNoGuard(s, h, p) ==
  LET surface == MapGet(s, p.surfaceId)
  IN IF surface = Undef THEN Outcome(s, h, FALSE)
     ELSE LET path == IF Truthy(p.path) THEN p.path.s ELSE Path.slash
          IN IF path = Path.slash \/ path = <<>>
             THEN Outcome(MapSet(s, p.surfaceId,
                                 [surface EXCEPT !.dataModel = p.value]),
                          h, FALSE)
             ELSE LET r == setValueAtPath(h, surface.dataModel, path, p.value)
                  IN Outcome(s, r.heap, r.threw)

\* an updateDataModel that reads op: an add does not write over a value that
\* is there
updateDataModelAddKeeps(s, h, p) ==
  LET surface == MapGet(s, p.surfaceId)
  IN IF surface = Undef \/ p.value = Undef THEN Outcome(s, h, FALSE)
     ELSE LET path == IF Truthy(p.path) THEN p.path.s ELSE Path.slash
          IN IF /\ p.op = Str(<<"a", "d", "d">>)
                /\ getValueAtPath(h, surface.dataModel, path) # Undef
             THEN Outcome(s, h, FALSE)
             ELSE IF path = Path.slash \/ path = <<>>
             THEN Outcome(MapSet(s, p.surfaceId,
                                 [surface EXCEPT !.dataModel = p.value]),
                          h, FALSE)
             ELSE LET r == setValueAtPath(h, surface.dataModel, path, p.value)
                  IN Outcome(s, r.heap, r.threw)

\* lines 850-859
updateDataModel(s, h, p) ==
  LET surface == MapGet(s, p.surfaceId)
  IN IF surface = Undef \/ p.value = Undef THEN Outcome(s, h, FALSE)
     ELSE LET path == IF Truthy(p.path) THEN p.path.s ELSE Path.slash
          IN IF path = Path.slash \/ path = <<>>
             THEN Outcome(MapSet(s, p.surfaceId,
                                 [surface EXCEPT !.dataModel = p.value]),
                          h, FALSE)
             ELSE LET r == setValueAtPath(h, surface.dataModel, path, p.value)
                  IN Outcome(s, r.heap, r.threw)

\* a deleteSurface that empties the surface and leaves it in the store
deleteSurfaceClearing(s, h, p) ==
  IF MapHas(s, p.surfaceId)
  THEN Outcome(MapSet(s, p.surfaceId,
                      [s.val[p.surfaceId] EXCEPT !.components = EmptyMap]),
               h, FALSE)
  ELSE Outcome(s, h, FALSE)

\* a deleteSurface that clears the whole store
deleteSurfaceAll(s, h, p) == Outcome(EmptyMap, h, FALSE)

\* lines 860-862
deleteSurface(s, h, p) == Outcome(MapDelete(s, p.surfaceId), h, FALSE)

\* a loop body that looks for the four fields from the last to the first
processMessageLastWins(s, h, message) ==
  IF message.deleteSurface # None THEN deleteSurface(s, h, message.deleteSurface)
  ELSE IF message.updateDataModel # None
       THEN updateDataModel(s, h, message.updateDataModel)
  ELSE IF message.updateComponents # None
       THEN updateComponents(s, h, message.updateComponents)
  ELSE IF message.createSurface # None
       THEN createSurface(s, h, message.createSurface)
  ELSE Outcome(s, h, FALSE)

\* lines 836-862: the body of the loop, for one message
processMessage(s, h, message) ==
  IF message.createSurface # None THEN createSurface(s, h, message.createSurface)
  ELSE IF message.updateComponents # None
       THEN updateComponents(s, h, message.updateComponents)
  ELSE IF message.updateDataModel # None
       THEN updateDataModel(s, h, message.updateDataModel)
  ELSE IF message.deleteSurface # None
       THEN deleteSurface(s, h, message.deleteSurface)
  ELSE Outcome(s, h, FALSE)

\* lines 834-864: the loop over the array from index i on; an exception ends
\* it.  pos is the index the loop stopped at.
RECURSIVE processFrom(_, _, _, _)
processFrom(s, h, msgs, i) ==
  IF i > Len(msgs) THEN [surfaces |-> s, heap |-> h, threw |-> FALSE, pos |-> i]
  ELSE LET r == processMessage(s, h, msgs[i])
       IN IF r.threw
          THEN [surfaces |-> r.surfaces, heap |-> r.heap, threw |-> TRUE, pos |-> i]
          ELSE processFrom(r.surfaces, r.heap, msgs, i + 1)

processMessages(s, h, msgs) == processFrom(s, h, msgs, 1)

(***************************************************************************)
(* Value resolver and tree renderer.  A component is the JSON text of its  *)
(* object (components are stored as received and never written to).  The  *)
(* render tree is a record per template: node names the template, the      *)
(* other fields are the values interpolated into it.                       *)
(***************************************************************************)
\* obj.k for the JSON text of an object; undefined when there is no such field
Field(c, k) == IF c.t = "object" /\ k \in DOMAIN c.val THEN c.val[k] ELSE Undef
\* 'k' in obj
HasField(c, k) == c.t = "object" /\ k \in DOMAIN c.val
\* typeof v === 'object' for a value that is not null
IsObjectLike(v) == v.t \in {"object", "array", "ref"}
\* a || d
OrElse(a, d) == IF Truthy(a) THEN a ELSE d
\* a ?? d
Coalesce(a, d) == IF a.t \in {"undefined", "null"} THEN d ELSE a
\* s.startsWith('./')
StartsWithDotSlash(p) == Len(p) >= 2 /\ p[1] = "." /\ p[2] = "/"

\* String(v)
RECURSIVE jsString(_, _), joinItems(_, _, _)
jsString(h, v) ==
  CASE v.t = "string" -> v.s
    [] v.t = "number" -> numToChars(v.n)
    [] v.t = "boolean" -> IF v.b THEN Lit.true ELSE Lit.false
    [] v.t = "null" -> Lit.null
    [] v.t = "undefined" -> Word.undefined
    [] v.t = "array" -> joinItems(h, v.items, 1)
    [] v.t = "ref" /\ h[v.a].isArray ->
         joinItems(h, [i \in 1..ArrayLength(h[v.a]) |->
                         GetProperty(h, v.a, numToChars(i - 1))], 1)
    [] OTHER -> Lit.objectObject
joinItems(h, items, i) ==
  IF i > Len(items) THEN <<>>
  ELSE (IF i > 1 THEN <<",">> ELSE <<>>)
         \o (IF items[i].t \in {"undefined", "null"} THEN <<>>
             ELSE jsString(h, items[i]))
         \o joinItems(h, items, i + 1)

\* the outcome of a render that ended by an exception
Thrown == [node |-> "exception"]
Nothing == [node |-> "nothing"]
Failed(nodes) == \E i \in 1..Len(nodes) : nodes[i] = Thrown

resolveValue(h, value, dataModel) ==
  IF Truthy(value) /\ IsObjectLike(value)
  THEN IF HasField(value, Prop.literalString) THEN Field(value, Prop.literalString)
       ELSE IF HasField(value, Prop.literalNumber) THEN Field(value, Prop.literalNumber)
       ELSE IF HasField(value, Prop.literalBoolean) THEN Field(value, Prop.literalBoolean)
       ELSE IF HasField(value, Prop.literalArray) THEN Field(value, Prop.literalArray)
       ELSE IF HasField(value, Prop.path) /\ Field(value, Prop.path).t = "string"
            THEN getValueAtPath(h, dataModel, Field(value, Prop.path).s)
       ELSE value
  ELSE value

\* a binding that takes every path from the root of the data model
resolveBoundAbsolute(h, value, dataModel, dataContextPath) ==
  IF Truthy(value) /\ IsObjectLike(value)
  THEN IF HasField(value, Prop.path) /\ Field(value, Prop.path).t = "string"
       THEN getValueAtPath(h, dataModel, Field(value, Prop.path).s)
       ELSE IF HasField(value, Prop.literalString) THEN Field(value, Prop.literalString)
       ELSE value
  ELSE value

\* lines 960-973 and 996-1008: the binding of Text.text and of Image.url
resolveBound(h, value, dataModel, dataContextPath) ==
  IF Truthy(value) /\ IsObjectLike(value)
  THEN IF HasField(value, Prop.path) /\ Field(value, Prop.path).t = "string"
       THEN LET path == Field(value, Prop.path).s
                fullPath == IF StartsWithDotSlash(path) /\ dataContextPath # <<>>
                            THEN dataContextPath \o Tail(path)
                            ELSE path
            IN getValueAtPath(h, dataModel, fullPath)
       ELSE IF HasField(value, Prop.literalString) THEN Field(value, Prop.literalString)
       ELSE value
  ELSE value

TagMap ==
  Lit.h1 :> Lit.h1 @@ Lit.h2 :> Lit.h2 @@ Lit.h3 :> Lit.h3 @@ Lit.h4 :> Lit.h4 @@ Lit.h5 :> Lit.h5
    @@ Lit.caption :> Lit.span @@ Lit.body :> Lit.pTag

renderText(h, component, dataModel, dataContextPath) ==
  LET textValue == resolveBound(h, Field(component, Prop.textProp), dataModel,
                                dataContextPath)
      text == jsString(h, Coalesce(textValue, Str(<<>>)))
      usageHint == OrElse(Field(component, Prop.usageHint), Str(Lit.body))
      tag == IF usageHint.t = "string" /\ usageHint.s \in DOMAIN TagMap
             THEN TagMap[usageHint.s] ELSE Lit.pTag
  IN [node |-> "text", tag |-> tag, usageHint |-> jsString(h, usageHint),
      text |-> text]

renderImage(h, component, dataModel, dataContextPath) ==
  LET urlValue == resolveBound(h, Field(component, Prop.url), dataModel,
                               dataContextPath)
      url == jsString(h, Coalesce(urlValue, Str(<<>>)))
      usageHint == OrElse(Field(component, Prop.usageHint), Str(Lit.mediumFeature))
      fit == OrElse(Field(component, Prop.fit), Str(Lit.cover))
  IN [node |-> "image", usageHint |-> jsString(h, usageHint), src |-> url,
      fit |-> jsString(h, fit)]

RECURSIVE camelToSnake(_)
camelToSnake(str) ==
  IF str = <<>> THEN <<>>
  ELSE (IF \E i \in 1..26 : UpperCase[i] = Head(str)
        THEN <<"_", LowerCase[CHOOSE i \in 1..26 : UpperCase[i] = Head(str)]>>
        ELSE <<Head(str)>>) \o camelToSnake(Tail(str))

renderIcon(h, component, dataModel) ==
  LET nameValue == resolveValue(h, Field(component, Prop.nameProp), dataModel)
  IN [node |-> "icon",
      name |-> camelToSnake(jsString(h, Coalesce(nameValue, Str(Lit.help))))]

DistributionMap ==
  Lit.start :> Lit.flexStart @@ Lit.end :> Lit.flexEnd @@ Lit.center :> Lit.center
    @@ Lit.spaceBetween :> Lit.spaceBetweenCss @@ Lit.spaceAround :> Lit.spaceAroundCss
    @@ Lit.spaceEvenly :> Lit.spaceEvenlyCss

mapDistribution(distribution) ==
  IF distribution \in DOMAIN DistributionMap THEN DistributionMap[distribution]
  ELSE Lit.flexStart

renderTextField(h, component, dataModel) ==
  LET label == Coalesce(resolveValue(h, Field(component, Prop.label), dataModel),
                        Str(<<>>))
      text == Coalesce(resolveValue(h, Field(component, Prop.textProp), dataModel),
                       Str(<<>>))
      type == OrElse(Field(component, Prop.textFieldType), Str(Lit.shortText))
      inputType == IF type = Str(Lit.numberWord) THEN Lit.numberWord
                   ELSE IF type = Str(Lit.date) THEN Lit.date
                   ELSE IF type = Str(Lit.obscured) THEN Lit.password
                   ELSE Lit.textInput
  IN IF type = Str(Lit.longText)
     THEN [node |-> "textfield", control |-> "textarea",
           label |-> Tree(h, label), value |-> Tree(h, text)]
     ELSE [node |-> "textfield", control |-> "input", type |-> inputType,
           label |-> Tree(h, label), value |-> Tree(h, text)]

renderDivider(h, component) ==
  [node |-> "divider",
   axis |-> jsString(h, OrElse(Field(component, Prop.axis), Str(Lit.horizontal)))]

renderSlider(h, component, dataModel) ==
  LET value == Coalesce(resolveValue(h, Field(component, Prop.valueProp), dataModel),
                        Num(50))
      min == Coalesce(Field(component, Prop.minValue), Num(0))
      max == Coalesce(Field(component, Prop.maxValue), Num(100))
  IN [node |-> "slider", value |-> Tree(h, value), min |-> jsString(h, min),
      max |-> jsString(h, max)]

renderCheckBox(h, component, dataModel) ==
  LET label == Coalesce(resolveValue(h, Field(component, Prop.label), dataModel),
                        Str(<<>>))
      checked == Coalesce(resolveValue(h, Field(component, Prop.valueProp), dataModel),
                          Bool(FALSE))
  IN [node |-> "checkbox", checked |-> Truthy(checked), label |-> Tree(h, label)]

\* the recursion of renderComponent; depth counts the frames left on the call
\* stack, and a call with none left ends the render by a RangeError
RECURSIVE renderComponent(_, _, _, _, _), resolveChildren(_, _, _, _, _),
          renderExplicit(_, _, _, _, _, _), renderInstances(_, _, _, _, _, _, _)

\* a child lookup that ends the render by an exception when the id is not in
\* the component map
renderChildStrict(h, component, surface, dataContextPath, depth) ==
  LET childId == Field(component, Prop.child)
      childComp == IF Truthy(childId) THEN MapGet(surface.components, childId)
                   ELSE Null
  IN IF Truthy(childComp)
     THEN renderComponent(h, childComp, surface, dataContextPath, depth)
     ELSE Thrown

\* lines 1131-1132 and 1142-1143: the child of a Card or Button
renderChild(h, component, surface, dataContextPath, depth) ==
  LET childId == Field(component, Prop.child)
      childComp == IF Truthy(childId) THEN MapGet(surface.components, childId)
                   ELSE Null
  IN IF Truthy(childComp)
     THEN renderComponent(h, childComp, surface, dataContextPath, depth)
     ELSE Nothing

renderCard(h, component, surface, dataContextPath, depth) ==
  LET child == renderChild(h, component, surface, dataContextPath, depth)
  IN IF child = Thrown THEN Thrown ELSE [node |-> "card", child |-> child]

renderButton(h, component, surface, dataContextPath, depth) ==
  LET child == renderChild(h, component, surface, dataContextPath, depth)
      primary == Coalesce(Field(component, Prop.primary), Bool(FALSE))
  IN IF child = Thrown THEN Thrown
     ELSE [node |-> "button", primary |-> Truthy(primary), child |-> child]

\* a loop over the component map in insertion order, rendering the entries
\* the list names
RECURSIVE renderExplicitInserted(_, _, _, _, _, _)
renderExplicitInserted(h, ids, i, surface, dataContextPath, depth) ==
  LET ordered == SelectSeq(surface.components.keys,
                           LAMBDA k : \E j \in 1..Len(ids) : ids[j] = k)
  IN IF i > Len(ordered) THEN <<>>
     ELSE <<renderComponent(h, surface.components.val[ordered[i]], surface,
                            dataContextPath, depth)>>
            \o renderExplicitInserted(h, ids, i + 1, surface, dataContextPath, depth)

\* lines 1079-1084: the loop over an explicit list, from index i on
renderExplicit(h, ids, i, surface, dataContextPath, depth) ==
  IF i > Len(ids) THEN <<>>
  ELSE LET comp == MapGet(surface.components, ids[i])
       IN IF Truthy(comp)
          THEN LET r == renderComponent(h, comp, surface, dataContextPath, depth)
               IN IF r = Thrown THEN <<Thrown>>
                  ELSE <<r>> \o renderExplicit(h, ids, i + 1, surface,
                                            dataContextPath, depth)
          ELSE renderExplicit(h, ids, i + 1, surface, dataContextPath, depth)

\* a template expansion that goes through the keys from the last to the
\* first
RECURSIVE renderInstancesReversed(_, _, _, _, _, _, _)
renderInstancesReversed(h, templateComp, dataBinding, keys, i, surface, depth) ==
  IF i > Len(keys) THEN <<>>
  ELSE LET contextPath == dataBinding \o <<"/">> \o keys[Len(keys) + 1 - i]
           r == renderComponent(h, templateComp, surface, contextPath, depth)
       IN IF r = Thrown THEN <<Thrown>>
          ELSE <<r>> \o renderInstancesReversed(h, templateComp, dataBinding, keys,
                                                i + 1, surface, depth)

\* a loop that gives every instance the path of the collection as context
RECURSIVE renderInstancesNoIndex(_, _, _, _, _, _, _)
renderInstancesNoIndex(h, templateComp, dataBinding, keys, i, surface, depth) ==
  IF i > Len(keys) THEN <<>>
  ELSE <<renderComponent(h, templateComp, surface, dataBinding, depth)>>
         \o renderInstancesNoIndex(h, templateComp, dataBinding, keys,
                                   i + 1, surface, depth)

\* lines 1100-1108: one instance of the template per index or key, from i on
renderInstances(h, templateComp, dataBinding, keys, i, surface, depth) ==
  IF i > Len(keys) THEN <<>>
  ELSE LET contextPath == dataBinding \o <<"/">> \o keys[i]
           r == renderComponent(h, templateComp, surface, contextPath, depth)
       IN IF r = Thrown THEN <<Thrown>>
          ELSE <<r>> \o renderInstances(h, templateComp, dataBinding, keys,
                                        i + 1, surface, depth)

resolveChildren(h, children, surface, dataContextPath, depth) ==
  IF ~Truthy(children) \/ ~IsObjectLike(children) THEN <<>>
  ELSE IF HasField(children, Prop.explicitList)
          /\ Field(children, Prop.explicitList).t = "array"
  THEN renderExplicit(h, Field(children, Prop.explicitList).items, 1, surface,
                   dataContextPath, depth)
  ELSE LET template == Field(children, Prop.template)
       IN IF HasField(children, Prop.template) /\ Truthy(template)
             /\ IsObjectLike(template)
          THEN LET componentId == Field(template, Prop.componentId)
                   dataBinding == Field(template, Prop.dataBinding)
               IN IF Truthy(componentId) /\ Truthy(dataBinding)
                  THEN IF dataBinding.t # "string" THEN <<Thrown>>
                       ELSE LET templateComp == MapGet(surface.components, componentId)
                                data == getValueAtPath(h, surface.dataModel,
                                                       dataBinding.s)
                            IN IF Truthy(templateComp) /\ Truthy(data)
                               THEN IF data.t = "ref" /\ h[data.a].isArray
                                    THEN renderInstances(h, templateComp, dataBinding.s,
                                           [n \in 1..ArrayLength(h[data.a]) |->
                                              numToChars(n - 1)],
                                           1, surface, depth)
                                    ELSE IF data.t = "ref"
                                    THEN renderInstances(h, templateComp, dataBinding.s,
                                           ObjectKeys(h, data.a), 1, surface, depth)
                                    ELSE <<>>
                               ELSE <<>>
                  ELSE <<>>
          ELSE <<>>

renderRow(h, component, surface, dataContextPath, depth) ==
  LET children == resolveChildren(h, Field(component, Prop.children), surface,
                                  dataContextPath, depth)
      distribution == OrElse(Field(component, Prop.distribution), Str(Lit.start))
      alignment == OrElse(Field(component, Prop.alignment), Str(Lit.center))
  IN IF Failed(children) THEN Thrown
     ELSE [node |-> "row",
           justifyContent |-> mapDistribution(jsString(h, distribution)),
           alignItems |-> jsString(h, alignment), children |-> children]

renderColumn(h, component, surface, dataContextPath, depth) ==
  LET children == resolveChildren(h, Field(component, Prop.children), surface,
                                  dataContextPath, depth)
      distribution == OrElse(Field(component, Prop.distribution), Str(Lit.start))
      alignment == OrElse(Field(component, Prop.alignment), Str(Lit.stretch))
  IN IF Failed(children) THEN Thrown
     ELSE [node |-> "column",
           justifyContent |-> mapDistribution(jsString(h, distribution)),
           alignItems |-> jsString(h, alignment), children |-> children]

renderList(h, component, surface, dataContextPath, depth) ==
  LET children == resolveChildren(h, Field(component, Prop.children), surface,
                                  dataContextPath, depth)
      direction == OrElse(Field(component, Prop.direction), Str(Lit.vertical))
      alignment == OrElse(Field(component, Prop.alignment), Str(Lit.stretch))
  IN IF Failed(children) THEN Thrown
     ELSE [node |-> "list", direction |-> jsString(h, direction),
           alignItems |-> jsString(h, alignment), children |-> children]

\* a renderComponent that ends the render by an exception when it does not
\* know the type
renderComponentStrict(h, component, surface, dataContextPath, depth) ==
  LET dataModel == surface.dataModel
      type == Field(component, Prop.type)
  IN IF depth = 0 THEN Thrown
     ELSE CASE type = Str(Type.text) ->
                 renderText(h, component, dataModel, dataContextPath)
            [] type = Str(Type.image) ->
                 renderImage(h, component, dataModel, dataContextPath)
            [] type = Str(Type.icon) -> renderIcon(h, component, dataModel)
            [] type = Str(Type.row) ->
                 renderRow(h, component, surface, dataContextPath, depth - 1)
            [] type = Str(Type.column) ->
                 renderColumn(h, component, surface, dataContextPath, depth - 1)
            [] type = Str(Type.list) ->
                 renderList(h, component, surface, dataContextPath, depth - 1)
            [] type = Str(Type.card) ->
                 renderCard(h, component, surface, dataContextPath, depth - 1)
            [] type = Str(Type.button) ->
                 renderButton(h, component, surface, dataContextPath, depth - 1)
            [] type = Str(Type.textField) -> renderTextField(h, component, dataModel)
            [] type = Str(Type.divider) -> renderDivider(h, component)
            [] type = Str(Type.slider) -> renderSlider(h, component, dataModel)
            [] type = Str(Type.checkBox) -> renderCheckBox(h, component, dataModel)
            [] OTHER -> Thrown

renderComponent(h, component, surface, dataContextPath, depth) ==
  LET dataModel == surface.dataModel
      type == Field(component, Prop.type)
  IN IF depth = 0 THEN Thrown
     ELSE CASE type = Str(Type.text) ->
                 renderText(h, component, dataModel, dataContextPath)
            [] type = Str(Type.image) ->
                 renderImage(h, component, dataModel, dataContextPath)
            [] type = Str(Type.icon) -> renderIcon(h, component, dataModel)
            [] type = Str(Type.row) ->
                 renderRow(h, component, surface, dataContextPath, depth - 1)
            [] type = Str(Type.column) ->
                 renderColumn(h, component, surface, dataContextPath, depth - 1)
            [] type = Str(Type.list) ->
                 renderList(h, component, surface, dataContextPath, depth - 1)
            [] type = Str(Type.card) ->
                 renderCard(h, component, surface, dataContextPath, depth - 1)
            [] type = Str(Type.button) ->
                 renderButton(h, component, surface, dataContextPath, depth - 1)
            [] type = Str(Type.textField) -> renderTextField(h, component, dataModel)
            [] type = Str(Type.divider) -> renderDivider(h, component)
            [] type = Str(Type.slider) -> renderSlider(h, component, dataModel)
            [] type = Str(Type.checkBox) -> renderCheckBox(h, component, dataModel)
            [] OTHER -> [node |-> "unknown", type |-> jsString(h, type)]

\* a renderSurface that takes the first component of the map when there is
\* no root
renderSurfaceFirst(s, h, surfaceId) ==
  LET surface == MapGet(s, surfaceId)
  IN IF surface = Undef THEN Nothing
     ELSE LET rootComponent ==
                IF MapHas(surface.components, Str(Id.root))
                THEN MapGet(surface.components, Str(Id.root))
                ELSE IF surface.components.keys # <<>>
                THEN surface.components.val[surface.components.keys[1]]
                ELSE Undef
          IN IF ~Truthy(rootComponent) THEN Nothing
             ELSE renderComponent(h, rootComponent, surface, <<>>, MaxDepth)

renderSurface(s, h, surfaceId) ==
  LET surface == MapGet(s, surfaceId)
  IN IF surface = Undef THEN Nothing
     ELSE LET rootComponent == MapGet(surface.components, Str(Id.root))
          IN IF ~Truthy(rootComponent) THEN Nothing
             ELSE renderComponent(h, rootComponent, surface, <<>>, MaxDepth)

(***************************************************************************)
(* The messages the model draws from (JSON text, as the network client     *)
(* receives it).                                                           *)
(***************************************************************************)

SurfaceIds == {Str(Id.s1), Str(Id.s2)}

\* {path: p} and {literalString: s}
PathBinding(p) == Obj(<<Prop.path>>, Prop.path :> Str(p))
StringLiteral(s) == Obj(<<Prop.literalString>>, Prop.literalString :> Str(s))

RootText ==
  Obj(<<Prop.id, Prop.type, Prop.textProp, Prop.usageHint>>,
      Prop.id :> Str(Id.root) @@ Prop.type :> Str(Type.text) @@
      Prop.textProp :> PathBinding(Path.a) @@ Prop.usageHint :> Str(Lit.h1))
RootCard ==
  Obj(<<Prop.id, Prop.type, Prop.child>>,
      Prop.id :> Str(Id.root) @@ Prop.type :> Str(Type.card) @@ Prop.child :> Str(Id.x))
XText ==
  Obj(<<Prop.id, Prop.type, Prop.textProp>>,
      Prop.id :> Str(Id.x) @@ Prop.type :> Str(Type.text) @@ Prop.textProp :> StringLiteral(Word.hi))
XDivider == Obj(<<Prop.id, Prop.type>>, Prop.id :> Str(Id.x) @@ Prop.type :> Str(Type.divider))

ComponentLists == {<<RootText>>, <<RootCard, XText>>, <<XText, XDivider>>}

EmptyText == Obj(<<>>, <<>>)
NestedText == Obj(<<Key.a, Key.c>>, Key.a :> Obj(<<Key.d>>, Key.d :> Num(2)) @@ Key.c :> Num(3))

Paths == {Undef, Str(Path.slash), Str(Path.ab), Str(Path.c)}
Values == {Undef, Null, EmptyText, NestedText}
Ops == {Undef, Str(Word.remove)}

NoFields ==
  [createSurface |-> None, updateComponents |-> None,
   updateDataModel |-> None, deleteSurface |-> None]

CreateSurfaceText(id, c) ==
  [NoFields EXCEPT !.createSurface = [surfaceId |-> id, catalogId |-> c]]
UpdateComponentsText(id, l) ==
  [NoFields EXCEPT !.updateComponents = [surfaceId |-> id, components |-> Arr(l)]]
UpdateDataModelText(id, p, o, v) ==
  [NoFields EXCEPT !.updateDataModel =
     [surfaceId |-> id, path |-> p, op |-> o, value |-> v]]
DeleteSurfaceText(id) == [NoFields EXCEPT !.deleteSurface = [surfaceId |-> id]]

\* the first surface receives every combination, the second one message of
\* each kind
MessageTexts ==
  {CreateSurfaceText(Str(Id.s1), c) : c \in {Str(Id.catA), Str(Id.catB)}}
    \cup {UpdateComponentsText(Str(Id.s1), l) : l \in ComponentLists}
    \cup {UpdateDataModelText(Str(Id.s1), p, o, v) :
            p \in Paths, o \in Ops, v \in Values}
    \cup {DeleteSurfaceText(Str(Id.s1)),
          CreateSurfaceText(Str(Id.s2), Str(Id.catA)),
          UpdateComponentsText(Str(Id.s2), <<RootText>>),
          UpdateDataModelText(Str(Id.s2), Str(Path.slash), Undef, NestedText),
          UpdateDataModelText(Str(Id.s2), Str(Path.ab), Undef, Null),
          DeleteSurfaceText(Str(Id.s2))}

\* response.json(): the objects of a message are new objects.  Only the value
\* of an updateDataModel is ever written to, so only it is put in the heap.
parseMessage(h, text) ==
  IF text.updateDataModel = None THEN [heap |-> h, v |-> text]
  ELSE LET r == parseValue(h, text.updateDataModel.value)
       IN [heap |-> r.heap, v |-> [text EXCEPT !.updateDataModel.value = r.v]]

RECURSIVE parseFrom(_, _, _, _)
parseFrom(h, texts, i, acc) ==
  IF i > Len(texts) THEN [heap |-> h, v |-> acc]
  ELSE LET r == parseMessage(h, texts[i])
       IN parseFrom(r.heap, texts, i + 1, Append(acc, r.v))

parseMessages(h, texts) == parseFrom(h, texts, 1, <<>>)

(***************************************************************************)
(* The renderer as a state machine.                                        *)
(*   surfaces, heap  the surfaces Map and the objects it refers to         *)
(*   messages, pos   the array given to the running or last call of        *)
(*                   processMessages and the index of its next message     *)
(*   entry           surfaces and heap at the entry of that call, its      *)
(*                   array parsed                                          *)
(*   before          surfaces and heap when the loop took up the last      *)
(*                   message it has processed                              *)
(*   threw           whether the last call ended by an exception           *)
(*   count           messages processed so far                             *)
(*   rendered        what renderSurface returned since then, for which id  *)
(***************************************************************************)
\* The three chat shells: A2UIChat (app.ts), and the two A2UIStudio classes,
\* the one with handleSubmit and the one with handleSend.
Shells == {"A2UIChat", "A2UIStudio.handleSubmit", "A2UIStudio.handleSend"}
\* the fields of a shell as declared; the progress phases are counted 0, 1,
\* 2 and complete is 3; timers is the table of window.setInterval and
\* requests the calls of client.send
Constructed(kind) ==
  [kind |-> kind, messages |-> <<>>, loading |-> FALSE, loadingPhase |-> 0,
   error |-> Null, inputValue |-> <<>>, currentA2UI |-> Null,
   phaseInterval |-> Null, timers |-> <<>>, requests |-> <<>>]

Init ==
  /\ surfaces = EmptyMap
  /\ heap = <<>>
  /\ messages = <<>>
  /\ pos = 1
  /\ entry = [surfaces |-> EmptyMap, heap |-> <<>>]
  /\ before = [surfaces |-> EmptyMap, heap |-> <<>>]
  /\ threw = FALSE
  /\ count = 0
  /\ rendered = None
  /\ shell = Constructed("A2UIChat")

\* no call of processMessages is running
Idle == pos > Len(messages) \/ threw

\* one call of processMessages, from entry to return.  Both shells give a
\* renderer its messages first and render it afterwards (app.ts 617-630,
\* renderPreview), so no call follows a render.
ProcessMessages(texts) ==
  /\ Idle
  /\ rendered = None
  /\ count + Len(texts) <= MaxMsgs
  /\ LET parsed == parseMessages(heap, texts)
         r == processMessages(surfaces, parsed.heap, parsed.v)
         last == IF r.threw THEN r.pos ELSE r.pos - 1
         pre == processMessages(surfaces, parsed.heap,
                                SubSeq(parsed.v, 1, last - 1))
     IN /\ messages' = parsed.v
        /\ entry' = [surfaces |-> surfaces, heap |-> parsed.heap]
        /\ before' = [surfaces |-> pre.surfaces, heap |-> pre.heap]
        /\ surfaces' = r.surfaces
        /\ heap' = r.heap
        /\ threw' = r.threw
        /\ pos' = r.pos
  /\ count' = count + Len(texts)
  /\ rendered' = None
  /\ UNCHANGED shell

\* a renderSurface that takes the surface out of the store once rendered
RenderSurfaceConsuming(surfaceId) ==
  /\ Idle
  /\ LET out == renderSurface(surfaces, heap, surfaceId)
     IN IF rendered # None /\ rendered.surfaceId = surfaceId
        THEN /\ Len(rendered.outs) < MaxRenders
             /\ rendered' = [rendered EXCEPT !.outs = Append(@, out)]
        ELSE rendered' = [surfaceId |-> surfaceId, outs |-> <<out>>]
  /\ surfaces' = MapDelete(surfaces, surfaceId)
  /\ UNCHANGED <<heap, messages, pos, entry, before, threw, count, shell>>

\* a renderSurface that returns what the store held when the last call of
\* processMessages began
RenderSurfaceStale(surfaceId) ==
  /\ Idle
  /\ LET out == renderSurface(entry.surfaces, entry.heap, surfaceId)
     IN IF rendered # None /\ rendered.surfaceId = surfaceId
        THEN /\ Len(rendered.outs) < MaxRenders
             /\ rendered' = [rendered EXCEPT !.outs = Append(@, out)]
        ELSE rendered' = [surfaceId |-> surfaceId, outs |-> <<out>>]
  /\ UNCHANGED <<surfaces, heap, messages, pos, entry, before, threw, count, shell>>

\* a renderSurface that empties the component map of the surface it rendered
RenderSurfaceClearing(surfaceId) ==
  /\ Idle
  /\ LET out == renderSurface(surfaces, heap, surfaceId)
     IN IF rendered # None /\ rendered.surfaceId = surfaceId
        THEN /\ Len(rendered.outs) < MaxRenders
             /\ rendered' = [rendered EXCEPT !.outs = Append(@, out)]
        ELSE rendered' = [surfaceId |-> surfaceId, outs |-> <<out>>]
  /\ surfaces' = IF MapHas(surfaces, surfaceId)
                 THEN MapSet(surfaces, surfaceId,
                             [surfaces.val[surfaceId] EXCEPT !.components = EmptyMap])
                 ELSE surfaces
  /\ UNCHANGED <<heap, messages, pos, entry, before, threw, count, shell>>

\* one call of renderSurface; rendered keeps what the calls made in a row for
\* one surface id returned
RenderSurface(surfaceId) ==
  /\ Idle
  /\ LET out == renderSurface(surfaces, heap, surfaceId)
     IN IF rendered # None /\ rendered.surfaceId = surfaceId
        THEN /\ Len(rendered.outs) < MaxRenders
             /\ rendered' = [rendered EXCEPT !.outs = Append(@, out)]
        ELSE rendered' = [surfaceId |-> surfaceId, outs |-> <<out>>]
  /\ UNCHANGED <<surfaces, heap, messages, pos, entry, before, threw, count, shell>>

Next ==
  \/ \E text \in MessageTexts : ProcessMessages(<<text>>)
  \/ \E id \in SurfaceIds : RenderSurface(id)

Spec == Init /\ [][Next]_vars

(***************************************************************************)
(* The loop of processMessages, one iteration at a time, over whole        *)
(* arrays of messages.                                                     *)
(***************************************************************************)
BatchMessageTexts ==
  {CreateSurfaceText(Str(Id.s1), Str(Id.catA)),
   UpdateComponentsText(Str(Id.s1), <<RootText>>),
   UpdateDataModelText(Str(Id.s1), Str(Path.slash), Undef, NestedText),
   UpdateDataModelText(Str(Id.s1), Undef, Undef, Null),
   UpdateDataModelText(Str(Id.s1), Str(Path.ab), Undef, EmptyText),
   UpdateDataModelText(Str(Id.s1), Str(Path.c), Undef, Null),
   DeleteSurfaceText(Str(Id.s1)),
   CreateSurfaceText(Str(Id.s2), Str(Id.catB))}

BatchTexts == UNION {[1..n -> BatchMessageTexts] : n \in 0..MaxBatch}

\* entry of processMessages: the array has been parsed, the loop is at its
\* first element
Call(texts) ==
  /\ Idle
  /\ rendered = None
  /\ count + Len(texts) <= MaxMsgs
  /\ LET parsed == parseMessages(heap, texts)
     IN /\ messages' = parsed.v
        /\ heap' = parsed.heap
        /\ entry' = [surfaces |-> surfaces, heap |-> parsed.heap]
        /\ before' = [surfaces |-> surfaces, heap |-> parsed.heap]
  /\ pos' = 1
  /\ threw' = FALSE
  /\ count' = count + Len(texts)
  /\ UNCHANGED <<surfaces, rendered, shell>>

\* a loop that takes the array from its end
LoopStepBackwards ==
  /\ ~Idle
  /\ before' = [surfaces |-> surfaces, heap |-> heap]
  /\ LET r == processMessage(surfaces, heap, messages[Len(messages) - pos + 1])
     IN /\ surfaces' = r.surfaces
        /\ heap' = r.heap
        /\ threw' = r.threw
        /\ pos' = IF r.threw THEN pos ELSE pos + 1
  /\ UNCHANGED <<messages, entry, count, rendered, shell>>

\* one iteration of the loop
LoopStep ==
  /\ ~Idle
  /\ before' = [surfaces |-> surfaces, heap |-> heap]
  /\ LET r == processMessage(surfaces, heap, messages[pos])
     IN /\ surfaces' = r.surfaces
        /\ heap' = r.heap
        /\ threw' = r.threw
        /\ pos' = IF r.threw THEN pos ELSE pos + 1
  /\ UNCHANGED <<messages, entry, count, rendered, shell>>

NextBatch ==
  \/ \E texts \in BatchTexts : Call(texts)
  \/ LoopStep

SpecBatch == Init /\ [][NextBatch]_vars

(***************************************************************************)
(* The shell: a renderer is given whole arrays of messages and then        *)
(* renders (app.ts 615-634).  The arrays build component graphs with       *)
(* containers, templates and bound properties, and some are malformed.     *)
(***************************************************************************)
\* messages one renderer processes in a behaviour of SpecRender
MaxScene == 4


\* {template: {componentId, dataBinding}} and {explicitList: [ids]}
TemplateChildren(componentId, dataBinding) ==
  Obj(<<Prop.template>>,
      Prop.template :> Obj(<<Prop.componentId, Prop.dataBinding>>,
                           Prop.componentId :> Str(componentId)
                             @@ Prop.dataBinding :> Str(dataBinding)))
ExplicitChildren(ids) ==
  Obj(<<Prop.explicitList>>,
      Prop.explicitList :> Arr([i \in 1..Len(ids) |-> Str(ids[i])]))

\* components: {id, type, <property>: value}
ComponentOf(id, type, prop, value) ==
  Obj(<<Prop.id, Prop.type, prop>>,
      Prop.id :> Str(id) @@ Prop.type :> Str(type) @@ prop :> value)

\* a bindable value with a literal tag and a path tag, and one with two
\* literal tags
BothTags ==
  Obj(<<Prop.literalString, Prop.path>>,
      Prop.literalString :> Str(Word.litA) @@ Prop.path :> Str(Path.name))
TwoLiterals ==
  Obj(<<Prop.literalNumber, Prop.literalString>>,
      Prop.literalNumber :> Num(7) @@ Prop.literalString :> Str(Word.litA))

YText == ComponentOf(Id.y, Type.text, Prop.textProp, PathBinding(Path.name))
RootHeading ==
  Obj(<<Prop.id, Prop.type, Prop.textProp, Prop.usageHint>>,
      Prop.id :> Str(Id.root) @@ Prop.type :> Str(Type.text) @@
      Prop.textProp :> PathBinding(Path.name) @@ Prop.usageHint :> Str(Lit.h1))
\* a Text bound to ./name, and a component of a type the renderer does not
\* know
KText == ComponentOf(Id.k, Type.text, Prop.textProp, PathBinding(Path.relName))
UGauge == ComponentOf(Id.u, Word.gauge, Prop.textProp, StringLiteral(Word.hi))
NoIdText ==
  Obj(<<Prop.type, Prop.textProp>>,
      Prop.type :> Str(Type.text) @@ Prop.textProp :> StringLiteral(Word.hi))

SceneLists ==
  {<<ComponentOf(Id.root, Type.list, Prop.children, TemplateChildren(Id.t, Path.items)),
     ComponentOf(Id.t, Type.text, Prop.textProp, PathBinding(Path.relName))>>,
   <<ComponentOf(Id.root, Type.row, Prop.children, TemplateChildren(Id.t, Path.items)),
     ComponentOf(Id.t, Type.text, Prop.textProp, PathBinding(Path.name))>>,
   <<ComponentOf(Id.root, Type.column, Prop.children, TemplateChildren(Id.t, Path.items)),
     ComponentOf(Id.t, Type.image, Prop.url, PathBinding(Path.relName))>>,
   <<ComponentOf(Id.root, Type.list, Prop.children, TemplateChildren(Id.t, Path.items))>>,
   <<XText, YText,
     ComponentOf(Id.root, Type.row, Prop.children, ExplicitChildren(<<Id.y, Id.m, Id.x>>))>>,
   <<ComponentOf(Id.root, Type.column, Prop.children, ExplicitChildren(<<Id.y, Id.m, Id.x>>)),
     YText, XText>>,
   <<ComponentOf(Id.root, Type.list, Prop.children, ExplicitChildren(<<Id.x, Id.y>>)),
     YText, XText>>,
   <<ComponentOf(Id.root, Type.card, Prop.child, Str(Id.m))>>,
   <<ComponentOf(Id.root, Type.button, Prop.child, Str(Id.m))>>,
   <<RootCard, XText>>,
   <<RootHeading>>,
   <<ComponentOf(Id.root, Type.text, Prop.textProp, BothTags)>>,
   <<ComponentOf(Id.root, Type.image, Prop.url, BothTags)>>,
   <<ComponentOf(Id.root, Type.icon, Prop.nameProp, BothTags)>>,
   <<ComponentOf(Id.root, Type.icon, Prop.nameProp, TwoLiterals)>>,
   <<YText>>,
   <<ComponentOf(Id.root, Type.row, Prop.children, ExplicitChildren(<<Id.x, Id.u, Id.y>>)),
     XText, UGauge, YText>>,
   <<ComponentOf(Id.root, Word.gauge, Prop.textProp, StringLiteral(Word.hi))>>,
   <<ComponentOf(Id.root, Type.list, Prop.children, TemplateChildren(Id.t, Path.items)),
     ComponentOf(Id.t, Type.icon, Prop.nameProp, PathBinding(Path.relName))>>,
   <<ComponentOf(Id.root, Type.row, Prop.children, TemplateChildren(Id.t, Path.items)),
     ComponentOf(Id.t, Type.textField, Prop.label, PathBinding(Path.relName))>>,
   <<ComponentOf(Id.root, Type.list, Prop.children, TemplateChildren(Id.t, Path.items)),
     ComponentOf(Id.t, Type.card, Prop.child, Str(Id.k)), KText>>,
   <<ComponentOf(Id.root, Type.list, Prop.children, TemplateChildren(Id.t, Path.items)),
     ComponentOf(Id.t, Type.card, Prop.child, Str(Id.k)),
     ComponentOf(Id.k, Type.icon, Prop.nameProp, PathBinding(Path.relName))>>,
   <<ComponentOf(Id.root, Type.row, Prop.children, TemplateChildren(Id.t, Path.items)),
     ComponentOf(Id.t, Type.button, Prop.child, Str(Id.k)), KText>>,
   <<ComponentOf(Id.root, Type.column, Prop.children, TemplateChildren(Id.t, Path.items)),
     ComponentOf(Id.t, Type.row, Prop.children, ExplicitChildren(<<Id.k, Id.y>>)),
     KText, YText>>}

NamedText(name) == Obj(<<Key.name>>, Key.name :> Str(name))
SceneData ==
  {Obj(<<Key.items, Key.name>>,
       Key.items :> Arr(<<NamedText(Id.x), NamedText(Id.y)>>) @@ Key.name :> Str(Word.ann)),
   Obj(<<Key.items, Key.name>>, Key.items :> Arr(<<>>) @@ Key.name :> Str(Word.ann)),
   Obj(<<Key.items, Key.name>>,
       Key.items :> Obj(<<Key.b, Key.a>>, Key.b :> NamedText(Id.y) @@ Key.a :> NamedText(Id.x))
         @@ Key.name :> Str(Word.bob)),
   Obj(<<Key.name>>, Key.name :> Str(Word.ann)),
   Obj(<<Key.items, Key.name>>, Key.items :> Str(Word.ann) @@ Key.name :> Str(Word.bob))}

\* an updateComponents that carries no components
UpdateComponentsNoListText(id) ==
  [NoFields EXCEPT !.updateComponents = [surfaceId |-> id, components |-> Undef]]

\* the arrays: a surface with its data model and its components; single
\* messages that follow; arrays with an element of no kind, with an
\* updateComponents that has no list, with a component that has no id
SceneBatches ==
  {<<CreateSurfaceText(Str(Id.s1), Str(Id.catA)),
     UpdateDataModelText(Str(Id.s1), Str(Path.slash), Undef, d),
     UpdateComponentsText(Str(Id.s1), l)>> : l \in SceneLists, d \in SceneData}
    \cup {<<UpdateDataModelText(Str(Id.s1), Str(Path.name), Undef, Str(Word.bob))>>,
          <<UpdateDataModelText(Str(Id.s1), Str(Path.itemName), Undef, Str(Word.bob))>>,
          <<CreateSurfaceText(Str(Id.s1), Str(Id.catA)), NoFields,
            UpdateComponentsText(Str(Id.s1), <<RootHeading>>)>>,
          <<CreateSurfaceText(Str(Id.s1), Str(Id.catA)),
            UpdateComponentsNoListText(Str(Id.s1)),
            CreateSurfaceText(Str(Id.s2), Str(Id.catB))>>,
          <<CreateSurfaceText(Str(Id.s1), Str(Id.catA)),
            UpdateComponentsText(Str(Id.s1), <<NoIdText, RootHeading>>),
            UpdateDataModelText(Str(Id.s1), Str(Path.name), Undef, Str(Word.ann))>>}

\* one call of processMessages with a whole array, from entry to return
ProcessBatch(texts) ==
  /\ Idle
  /\ rendered = None
  /\ count + Len(texts) <= MaxScene
  /\ LET parsed == parseMessages(heap, texts)
         r == processMessages(surfaces, parsed.heap, parsed.v)
         last == IF r.threw THEN r.pos ELSE r.pos - 1
         pre == processMessages(surfaces, parsed.heap,
                                SubSeq(parsed.v, 1, last - 1))
     IN /\ messages' = parsed.v
        /\ entry' = [surfaces |-> surfaces, heap |-> parsed.heap]
        /\ before' = [surfaces |-> pre.surfaces, heap |-> pre.heap]
        /\ surfaces' = r.surfaces
        /\ heap' = r.heap
        /\ threw' = r.threw
        /\ pos' = r.pos
  /\ count' = count + Len(texts)
  /\ rendered' = None
  /\ UNCHANGED shell

NextRender ==
  \/ \E texts \in SceneBatches : ProcessBatch(texts)
  \/ \E id \in SurfaceIds : RenderSurface(id)

SpecRender == Init /\ [][NextRender]_vars

(***************************************************************************)
(* The path resolver under the messages that reach it: a surface whose     *)
(* data model is replaced by a value and then written at a path, and a     *)
(* Text bound to a path, which reads it.                                   *)
(***************************************************************************)
PathLit ==
  [trailing |-> <<"a", "/", "b", "/">>,
   doubled |-> <<"/", "/", "a", "/", "/", "b">>,
   slashes |-> <<"/", "/">>,
   ad |-> <<"/", "a", "/", "d">>,
   cx |-> <<"/", "c", "/", "x">>,
   itemsLength |-> Path.items \o <<"/">> \o Prop.length,
   itemsFifth |-> Path.items \o <<"/", "5">>,
   itemsName |-> Path.items \o Path.name,
   missing |-> <<"/", "z">>]

\* the values a data model is replaced by: mappings, one with a scalar and
\* one with null where /a/b passes, one with an array, and null
PathData ==
  {NestedText,
   Obj(<<Key.a>>, Key.a :> Num(5)),
   Obj(<<Key.a>>, Key.a :> Null),
   Obj(<<Key.items>>, Key.items :> Arr(<<NamedText(Id.x), NamedText(Id.y)>>)),
   EmptyText,
   Null}
SetPaths ==
  {Undef, Str(<<>>), Str(Path.slash), Str(PathLit.slashes), Str(Path.ab), Str(PathLit.trailing),
   Str(PathLit.doubled), Str(Path.c), Str(Path.itemName)}
SetOps == {Undef, Str(Word.add), Str(Word.replace), Str(Word.remove)}
SetValues == {Num(7), EmptyText, Null}
GetPaths ==
  {<<>>, Path.slash, PathLit.slashes, Path.ab, PathLit.trailing, PathLit.doubled, PathLit.ad, Path.c, PathLit.cx, PathLit.missing,
   Path.itemName, PathLit.itemsFifth, PathLit.itemsName, PathLit.itemsLength}

\* a root Text bound to a path
RootTextAt(path) == ComponentOf(Id.root, Type.text, Prop.textProp, PathBinding(path))

PathBatches ==
  {<<CreateSurfaceText(Str(Id.s1), Str(Id.catA)),
     UpdateDataModelText(Str(Id.s1), Str(Path.slash), Undef, d),
     UpdateDataModelText(Str(Id.s1), p, o, v)>> :
       d \in PathData, p \in SetPaths, o \in SetOps, v \in SetValues}
    \cup {<<UpdateComponentsText(Str(Id.s1), <<RootTextAt(p)>>)>> :
            p \in {PathLit.itemsLength, PathLit.doubled, PathLit.cx}}

\* messages with none, one or several of the four fields
MixedTexts ==
  {[createSurface |-> c.createSurface, updateComponents |-> u.updateComponents,
    updateDataModel |-> d.updateDataModel, deleteSurface |-> x.deleteSurface] :
     c \in {NoFields, CreateSurfaceText(Str(Id.s1), Str(Id.catB))},
     u \in {NoFields, UpdateComponentsText(Str(Id.s1), <<XText>>)},
     d \in {NoFields, UpdateDataModelText(Str(Id.s1), Str(Path.c), Undef, Num(7))},
     x \in {NoFields, DeleteSurfaceText(Str(Id.s1))}}
MixedBatches ==
  {<<CreateSurfaceText(Str(Id.s1), Str(Id.catA)), m,
     UpdateDataModelText(Str(Id.s1), Str(Path.ab), Undef, Num(7))>> : m \in MixedTexts}

NextPath ==
  \/ \E texts \in PathBatches \cup MixedBatches : ProcessBatch(texts)
  \/ \E id \in SurfaceIds : RenderSurface(id)

SpecPath == Init /\ [][NextPath]_vars

(***************************************************************************)
(* The component catalogue: nested templates, layout enums, bindings that  *)
(* resolve to nothing, sliders, and component maps with a cycle.           *)
(***************************************************************************)

\* a component with one more property; an undefined value leaves it out
With(component, prop, value) ==
  IF value = Undef THEN component
  ELSE Obj(Append(component.keys, prop), component.val @@ (prop :> value))
Bare(id, type) ==
  Obj(<<Prop.id, Prop.type>>, Prop.id :> Str(id) @@ Prop.type :> Str(type))

\* a List over /items of a container over a second collection, of Text
NestedLists ==
  {<<ComponentOf(Id.root, Type.list, Prop.children, TemplateChildren(Id.t, Path.items)),
     ComponentOf(Id.t, type, Prop.children, TemplateChildren(Id.k, binding)),
     KText>> :
       type \in {Type.list, Type.row}, binding \in {Path.relTags, Path.items}}

\* the three containers with every pair of a distribution and an alignment
LayoutEnums == {Undef, Str(Word.weird), Str(Lit.end)}
LayoutLists ==
  {<<With(With(ComponentOf(Id.root, type, Prop.children, ExplicitChildren(<<Id.x>>)),
               Prop.distribution, d),
          Prop.alignment, a),
     XText>> :
       type \in {Type.row, Type.column, Type.list},
       d \in LayoutEnums, a \in LayoutEnums}

\* bindable values: absent, with neither literal nor path, bound to a path
\* that holds nothing, and a literal
Bindables == {Undef, EmptyText, PathBinding(PathLit.missing), StringLiteral(Word.hi)}
LeafLists ==
  {<<With(With(Bare(Id.root, Type.text), Prop.textProp, v), Prop.usageHint, hint)>> :
     v \in Bindables, hint \in {Undef, Str(Word.weird), Str(Lit.caption)}}
    \cup {<<With(Bare(Id.root, Type.image), Prop.url, v)>> : v \in Bindables}
    \cup {<<With(With(Bare(Id.root, Type.textField), Prop.label, v), Prop.textProp, v)>> :
            v \in Bindables}
    \cup {<<With(With(Bare(Id.root, Type.checkBox), Prop.label, v), Prop.valueProp, v)>> :
            v \in Bindables}

\* sliders: the value absent, bound to nothing, or a literal number, with
\* and without a range
SliderLists ==
  {<<With(With(With(Bare(Id.root, Type.slider), Prop.valueProp, v),
               Prop.minValue, range[1]),
          Prop.maxValue, range[2])>> :
     v \in {Undef, PathBinding(PathLit.missing), Obj(<<Prop.literalNumber>>, Prop.literalNumber :> Num(7))},
     range \in {<<Undef, Undef>>, <<Num(200), Num(300)>>, <<Undef, Num(20)>>,
                <<Num(0), Num(10)>>}}

\* component maps in which a component reaches itself
CyclicLists ==
  {<<ComponentOf(Id.root, Type.card, Prop.child, Str(Id.root))>>,
   <<ComponentOf(Id.root, Type.button, Prop.child, Str(Id.root))>>,
   <<ComponentOf(Id.root, Type.row, Prop.children, ExplicitChildren(<<Id.x, Id.root>>)),
     XText>>,
   <<ComponentOf(Id.root, Type.list, Prop.children, TemplateChildren(Id.root, Path.items))>>,
   <<ComponentOf(Id.root, Type.card, Prop.child, Str(Id.x)),
     ComponentOf(Id.x, Type.button, Prop.child, Str(Id.root))>>}

Tagged(name, tags) ==
  Obj(<<Key.name, Key.tags>>, Key.name :> Str(name) @@ Key.tags :> Arr(tags))
CatalogueData ==
  {Obj(<<Key.items, Key.name>>,
       Key.items :> Arr(<<Tagged(Id.x, <<NamedText(Word.litA), NamedText(Id.y)>>),
                       Tagged(Id.y, <<NamedText(Word.bob)>>)>>)
         @@ Key.name :> Str(Word.ann)),
   EmptyText}

CatalogueBatches ==
  {<<CreateSurfaceText(Str(Id.s1), Str(Id.catA)),
     UpdateDataModelText(Str(Id.s1), Str(Path.slash), Undef, d),
     UpdateComponentsText(Str(Id.s1), l)>> :
       l \in NestedLists \cup LayoutLists \cup LeafLists \cup SliderLists
               \cup CyclicLists,
       d \in CatalogueData}

NextCatalogue ==
  \/ \E texts \in CatalogueBatches : ProcessBatch(texts)
  \/ \E id \in SurfaceIds : RenderSurface(id)

SpecCatalogue == Init /\ [][NextCatalogue]_vars

(***************************************************************************)
(* The chat shells.  A handler runs to its await in one step; the          *)
(* continuation after the await is a microtask, queued when the promise of *)
(* client.send settles, and runs before any other event or timer.          *)
(***************************************************************************)
MaxSubmits == 2
MaxTicks == 3

Complete == 3
\* phases.length in startPhaseProgression
PhasesLength == 3

\* s.trim(), for the spaces: from the first to the last character that is
\* no space
trim(s) ==
  LET kept == {i \in 1..Len(s) : s[i] # " "}
  IN IF kept = {} THEN <<>>
     ELSE SubSeq(s, CHOOSE i \in kept : \A j \in kept : i <= j,
                 CHOOSE i \in kept : \A j \in kept : j <= i)

\* what is typed, and what a suggestion puts in the input
Typed == {<<>>, <<" ">>, <<" ", "b", " ">>}

\* an array of messages, as a value
Batch(ms) == [t |-> "batch", messages |-> ms]

\* what the server answers: fetch itself fails, a status that is not ok
\* with or without an error text, a body with an error, a body with or
\* without messages
Answers ==
  {[failed |-> TRUE, ok |-> FALSE, error |-> Undef, messages |-> Undef],
   [failed |-> FALSE, ok |-> FALSE, error |-> Str(<<"d", "o", "w", "n">>), messages |-> Undef],
   [failed |-> FALSE, ok |-> FALSE, error |-> Undef, messages |-> Undef],
   [failed |-> FALSE, ok |-> TRUE, error |-> Str(<<"b", "u", "s", "y">>), messages |-> Undef],
   [failed |-> FALSE, ok |-> TRUE, error |-> Undef, messages |-> Undef],
   [failed |-> FALSE, ok |-> TRUE, error |-> Undef,
    messages |-> Batch(<<CreateSurfaceText(Str(Id.s1), Str(Id.catA))>>)]}


\* client.ts 44-66: how the promise of send settles on an answer
send(answer) ==
  IF answer.failed
  THEN [state |-> "rejected", value |-> Str(Word.failedToFetch)]
  ELSE IF ~answer.ok
  THEN [state |-> "rejected",
        value |-> OrElse(answer.error, Str(Word.failedToSend))]
  ELSE IF Truthy(answer.error)
  THEN [state |-> "rejected", value |-> answer.error]
  ELSE [state |-> "resolved",
        value |-> IF answer.messages = Undef THEN Batch(<<>>)
                  ELSE answer.messages]

\* one more interval in the table, its currentIndex 0, its id in phaseInterval
startPhaseProgression(sh) ==
  [sh EXCEPT !.timers = Append(@, [currentIndex |-> 0, cleared |-> FALSE]),
             !.phaseInterval = Num(Len(sh.timers) + 1)]

\* clearInterval takes the entry out of the list of active timers: the
\* callback and the currentIndex it closed over are gone
stopPhaseProgression(sh) ==
  IF Truthy(sh.phaseInterval)
  THEN [sh EXCEPT !.timers[sh.phaseInterval.n] =
                    [currentIndex |-> 0, cleared |-> TRUE],
                  !.phaseInterval = Null]
  ELSE sh

UserMessage(sh, message) ==
  [role |-> "user", content |-> Str(message), a2ui |-> None,
   request |-> Len(sh.requests) + 1]

\* a handler that does not look at loading
handleSubmitUnguarded(sh) ==
  LET message == trim(sh.inputValue)
  IN IF message = <<>> THEN sh
     ELSE LET set == [sh EXCEPT !.inputValue = <<>>,
                                !.error = IF sh.kind = "A2UIStudio.handleSend"
                                          THEN @ ELSE Null,
                                !.loading = TRUE,
                                !.loadingPhase = IF sh.kind = "A2UIChat" THEN @ ELSE 0,
                                !.messages = Append(@, UserMessage(sh, message))]
              started == IF sh.kind = "A2UIChat" THEN set
                         ELSE startPhaseProgression(set)
          IN [started EXCEPT !.requests =
                Append(@, [message |-> message, state |-> "pending",
                           value |-> Undef])]

\* handleSubmit (app.ts 678-688, part_004 960-976) and handleSend (part_004
\* 1870-1881) up to the await
handleSubmit(sh) ==
  LET message == trim(sh.inputValue)
  IN IF message = <<>> \/ sh.loading THEN sh
     ELSE LET set == [sh EXCEPT !.inputValue = <<>>,
                                !.error = IF sh.kind = "A2UIStudio.handleSend"
                                          THEN @ ELSE Null,
                                !.loading = TRUE,
                                !.loadingPhase = IF sh.kind = "A2UIChat" THEN @ ELSE 0,
                                !.messages = Append(@, UserMessage(sh, message))]
              started == IF sh.kind = "A2UIChat" THEN set
                         ELSE startPhaseProgression(set)
          IN [started EXCEPT !.requests =
                Append(@, [message |-> message, state |-> "pending",
                           value |-> Undef])]

\* the try block after the await
resolved(sh, i) ==
  LET a2uiMessages == sh.requests[i].value
  IN IF sh.kind = "A2UIChat"
     THEN [sh EXCEPT !.messages =
             Append(@, [role |-> "assistant", content |-> a2uiMessages,
                        a2ui |-> None, request |-> i])]
     ELSE [sh EXCEPT !.loadingPhase = Complete,
                     !.currentA2UI = a2uiMessages,
                     !.messages =
                       Append(@, [role |-> "assistant", content |-> Str(<<>>),
                                  a2ui |-> a2uiMessages, request |-> i])]

\* the catch block
rejected(sh, i) ==
  IF sh.kind = "A2UIStudio.handleSend"
  THEN [sh EXCEPT !.messages =
          Append(@, [role |-> "assistant", content |-> sh.requests[i].value,
                     a2ui |-> None, request |-> i])]
  ELSE [sh EXCEPT !.error = sh.requests[i].value]

\* the finally block
finally(sh) ==
  [(IF sh.kind = "A2UIChat" THEN sh ELSE stopPhaseProgression(sh))
     EXCEPT !.loading = FALSE]

\* a continuation that resets loading in the try block only
resumeNoFinally(sh, i) ==
  LET done == [sh EXCEPT !.requests[i].state = "done"]
  IN IF sh.requests[i].state = "resolved" THEN finally(resolved(done, i))
     ELSE rejected(done, i)

\* the handler from the await to its end
resume(sh, i) ==
  LET done == [sh EXCEPT !.requests[i].state = "done"]
  IN finally(IF sh.requests[i].state = "resolved" THEN resolved(done, i)
             ELSE rejected(done, i))

\* the callback of setInterval
tick(sh, t) ==
  LET currentIndex == sh.timers[t].currentIndex + 1
      counted == [sh EXCEPT !.timers[t].currentIndex = currentIndex]
  IN IF currentIndex < PhasesLength
     THEN [counted EXCEPT !.loadingPhase = currentIndex]
     ELSE counted

store == <<surfaces, heap, messages, pos, entry, before, threw, count, rendered>>

\* the continuation of request i is queued
Settled(i) == shell.requests[i].state \in {"resolved", "rejected"}
\* no microtask is queued: the next event or timer can run
Quiescent == \A i \in 1..Len(shell.requests) : ~Settled(i)

InitShell ==
  /\ surfaces = EmptyMap /\ heap = <<>> /\ messages = <<>> /\ pos = 1
  /\ entry = [surfaces |-> EmptyMap, heap |-> <<>>]
  /\ before = [surfaces |-> EmptyMap, heap |-> <<>>]
  /\ threw = FALSE /\ count = 0 /\ rendered = None
  /\ shell \in {Constructed(kind) : kind \in Shells}

\* the input event.  The templates disable the input and the send button
\* while loading and show the suggestions while the conversation is empty;
\* an event can still be dispatched to the element, so the handlers are
\* called here in every state and only their own guards hold them back
Input(text) ==
  /\ Quiescent
  /\ shell' = [shell EXCEPT !.inputValue = text]
  /\ UNCHANGED store

\* the submit event, the click on send, the Enter key.  The calls that can
\* reach client.send are counted: a handler called while loading returns
\* before it
Submit ==
  /\ Quiescent
  /\ Len(shell.requests) < MaxSubmits \/ shell.loading
  /\ shell' = handleSubmit(shell)
  /\ UNCHANGED store

\* the click on a suggestion (part_004 955-958, 1865-1868)
Suggestion ==
  /\ Quiescent
  /\ Len(shell.requests) < MaxSubmits \/ shell.loading
  /\ shell.kind # "A2UIChat"
  /\ shell' = handleSubmit([shell EXCEPT !.inputValue = Word.suggestion])
  /\ UNCHANGED store

\* the server answers request i and the promise of send settles
Answer(i, answer) ==
  /\ Quiescent
  /\ shell.requests[i].state = "pending"
  /\ shell' = [shell EXCEPT !.requests[i].state = send(answer).state,
                            !.requests[i].value = send(answer).value]
  /\ UNCHANGED store

Resume(i) ==
  /\ Settled(i)
  /\ shell' = resume(shell, i)
  /\ UNCHANGED store

Tick(t) ==
  /\ Quiescent
  /\ ~shell.timers[t].cleared
  /\ shell.timers[t].currentIndex < MaxTicks
  /\ shell' = tick(shell, t)
  /\ UNCHANGED store


NextShell ==
  \/ \E text \in Typed : Input(text)
  \/ Submit
  \/ Suggestion
  \/ \E i \in 1..Len(shell.requests) : \E answer \in Answers : Answer(i, answer)
  \/ \E i \in 1..Len(shell.requests) : Resume(i)
  \/ \E t \in 1..Len(shell.timers) : Tick(t)

SpecShell == InitShell /\ [][NextShell]_vars
\* the microtask queue is emptied before anything else runs
SpecShellLive == SpecShell /\ WF_vars(\E i \in 1..Len(shell.requests) : Resume(i))

(***************************************************************************)
(* What the claims speak of.                                               *)
(***************************************************************************)
\* the index of the last message the loop has processed, 0 when none
LastIndex == IF threw THEN pos ELSE pos - 1
Processed == LastIndex >= 1 /\ LastIndex <= Len(messages)
Last == messages[LastIndex]

IsCreate(m) == m.createSurface # None
IsComponents(m) == m.createSurface = None /\ m.updateComponents # None
IsDataModel(m) ==
  m.createSurface = None /\ m.updateComponents = None /\ m.updateDataModel # None
IsDelete(m) ==
  /\ m.createSurface = None /\ m.updateComponents = None
  /\ m.updateDataModel = None /\ m.deleteSurface # None

\* the surface id a message names
Target(m) ==
  IF IsCreate(m) THEN m.createSurface.surfaceId
  ELSE IF IsComponents(m) THEN m.updateComponents.surfaceId
  ELSE IF IsDataModel(m) THEN m.updateDataModel.surfaceId
  ELSE m.deleteSurface.surfaceId

Live(s, id) == MapHas(s, id)

\* a surface as a value: its fields, the data model as the tree in the heap
SurfaceView(s, h, id) ==
  [surfaceId |-> s.val[id].surfaceId, catalogId |-> s.val[id].catalogId,
   components |-> s.val[id].components,
   dataModel |-> Tree(h, s.val[id].dataModel)]

EmptyTree == [t |-> "object", isArray |-> FALSE, keys |-> <<>>, val |-> <<>>]

\* the store unchanged by the last message: the same surfaces, the same
\* objects
Unchanged == surfaces = before.surfaces /\ heap = before.heap

\* the left fold of the effect of one message over a list of messages
RECURSIVE FoldLeft(_, _)
FoldLeft(st, msgs) ==
  IF msgs = <<>> THEN st
  ELSE LET p == FoldLeft(st, SubSeq(msgs, 1, Len(msgs) - 1))
           r == processMessage(p.surfaces, p.heap, msgs[Len(msgs)])
       IN [surfaces |-> r.surfaces, heap |-> r.heap]

\* C1: at every point of the loop of processMessages the store is the left
\* fold, from the store at entry, of the effects of the messages processed so
\* far, taken in list order; when the loop has ended normally that is the fold
\* over the whole array.
C1_FoldInOrder ==
  /\ [surfaces |-> surfaces, heap |-> heap]
       = FoldLeft(entry, SubSeq(messages, 1, pos - 1))
  /\ (pos > Len(messages) /\ ~threw) =>
       [surfaces |-> surfaces, heap |-> heap] = FoldLeft(entry, messages)

\* a call of three messages has returned; its third message wrote below the
\* data model that its second message had put in place
C1_Witness ==
  /\ Len(messages) = 3 /\ pos = 4 /\ ~threw
  /\ IsCreate(messages[1]) /\ IsDataModel(messages[2]) /\ IsDataModel(messages[3])
  /\ Live(surfaces, Str(Id.s1))
  /\ getValueAtPath(heap, surfaces.val[Str(Id.s1)].dataModel, Path.ab) # Undef
  /\ getValueAtPath(heap, surfaces.val[Str(Id.s1)].dataModel, <<"/", "a", "/", "d">>)
       = Num(2)

\* C2: an updateComponents, updateDataModel or deleteSurface message that
\* names a surface that is not live changes nothing (no surface, no component,
\* no data model, no object) and does not throw.
C2_UnknownSurfaceNoOp ==
  (Processed /\ ~IsCreate(Last) /\ ~Live(before.surfaces, Target(Last)))
    => (Unchanged /\ ~threw)

\* an updateDataModel carrying a value named a surface that is not live while
\* another surface was live
C2_Witness ==
  /\ Processed /\ IsDataModel(Last) /\ Last.updateDataModel.value # Undef
  /\ ~Live(before.surfaces, Target(Last))
  /\ before.surfaces.keys # <<>>
  /\ Unchanged

\* C3: after createSurface(s, c) surface s is live with no component, an
\* empty data model and catalogId c, whatever it held before.
C3_CreateResets ==
  (Processed /\ IsCreate(Last)) =>
    /\ ~threw
    /\ Live(surfaces, Target(Last))
    /\ SurfaceView(surfaces, heap, Target(Last))
         = [surfaceId |-> Target(Last),
            catalogId |-> Last.createSurface.catalogId,
            components |-> EmptyMap,
            dataModel |-> EmptyTree]

\* createSurface named a live surface that had components and another
\* catalogId
C3_Witness ==
  /\ Processed /\ IsCreate(Last)
  /\ Live(before.surfaces, Target(Last))
  /\ before.surfaces.val[Target(Last)].components.keys # <<>>
  /\ before.surfaces.val[Target(Last)].catalogId # Last.createSurface.catalogId
  /\ surfaces.val[Target(Last)].components = EmptyMap

\* the ids of the components of a list, and the last component of the list
\* with a given id
IdsOf(items) == {Field(items[i], Prop.id) : i \in 1..Len(items)}
LastWithId(items, id) ==
  items[CHOOSE i \in 1..Len(items) :
          /\ Field(items[i], Prop.id) = id
          /\ \A j \in (i + 1)..Len(items) : Field(items[j], Prop.id) # id]

\* C4: after updateComponents on a live surface the component stored under
\* each id of the message is exactly the last component of the message with
\* that id, and the components under the other ids are those stored before.
C4_ComponentsOverwritten ==
  (Processed /\ IsComponents(Last) /\ Live(before.surfaces, Target(Last))) =>
    LET items == Last.updateComponents.components.items
        old == before.surfaces.val[Target(Last)].components
        new == surfaces.val[Target(Last)].components
    IN /\ ~threw
       /\ DOMAIN new.val = DOMAIN old.val \cup IdsOf(items)
       /\ \A id \in IdsOf(items) : new.val[id] = LastWithId(items, id)
       /\ \A id \in (DOMAIN old.val) \ IdsOf(items) : new.val[id] = old.val[id]

\* a message carrying the id x twice replaced the Text stored under x, which
\* had a text property, by its second component, which has none; root kept
C4_Witness ==
  /\ Processed /\ IsComponents(Last) /\ Live(before.surfaces, Target(Last))
  /\ Last.updateComponents.components.items = <<XText, XDivider>>
  /\ MapGet(before.surfaces.val[Target(Last)].components, Str(Id.x)) = XText
  /\ MapGet(surfaces.val[Target(Last)].components, Str(Id.x)) = XDivider
  /\ MapGet(surfaces.val[Target(Last)].components, Str(Id.root)) = RootCard

\* the path of an updateDataModel names the root
IsRootPath(p) == p = Undef \/ p.s = Path.slash \/ p.s = <<>>

\* the data model of the surface the last message names, before and after
OldDataModel == before.surfaces.val[Target(Last)].dataModel
NewDataModel == surfaces.val[Target(Last)].dataModel

\* C5: after updateDataModel on a live surface with path "/" or no path and a
\* value, the data model is the value of the message: the same tree, so no
\* key of the old data model that the value lacks is left.
C5_RootReplace ==
  (/\ Processed /\ IsDataModel(Last) /\ Live(before.surfaces, Target(Last))
   /\ Last.updateDataModel.value # Undef
   /\ IsRootPath(Last.updateDataModel.path)) =>
    /\ ~threw
    /\ Live(surfaces, Target(Last))
    /\ NewDataModel = Last.updateDataModel.value
    /\ Tree(heap, NewDataModel) = Tree(before.heap, Last.updateDataModel.value)

\* a pure tree at a location (a sequence of property names)
RECURSIVE TreeAt(_, _)
TreeAt(tree, loc) ==
  IF loc = <<>> THEN tree
  ELSE IF tree.t = "object" /\ Head(loc) \in DOMAIN tree.val
       THEN TreeAt(tree.val[Head(loc)], Tail(loc))
       ELSE Undef

\* the data model had the key c, the value put in place of it has no key
C5_Witness ==
  /\ Processed /\ IsDataModel(Last) /\ Live(before.surfaces, Target(Last))
  /\ Last.updateDataModel.path = Str(Path.slash)
  /\ TreeAt(Tree(before.heap, OldDataModel), <<Key.c>>) # Undef
  /\ Tree(heap, NewDataModel) = EmptyTree

PropertyNames == {Key.a, Key.b, Key.c, Key.d}
Locations == UNION {[1..n -> PropertyNames] : n \in 1..3}
IsPrefix(a, b) == Len(a) <= Len(b) /\ SubSeq(b, 1, Len(a)) = a

\* C6: updateDataModel with a path that is not the root leaves every location
\* of the data model that is neither on the path nor below it as it was, and
\* leaves the components, the catalogId and the liveness of the surface alone.
C6_SiblingsUntouched ==
  (/\ Processed /\ IsDataModel(Last) /\ Live(before.surfaces, Target(Last))
   /\ Last.updateDataModel.value # Undef
   /\ ~IsRootPath(Last.updateDataModel.path)) =>
    LET ps == parts(Last.updateDataModel.path.s)
        old == Tree(before.heap, OldDataModel)
        new == Tree(heap, NewDataModel)
    IN /\ Live(surfaces, Target(Last))
       /\ \A loc \in Locations :
            (~IsPrefix(loc, ps) /\ ~IsPrefix(ps, loc))
              => TreeAt(new, loc) = TreeAt(old, loc)
       /\ surfaces.val[Target(Last)].components
            = before.surfaces.val[Target(Last)].components
       /\ surfaces.val[Target(Last)].catalogId
            = before.surfaces.val[Target(Last)].catalogId

\* /a/b was written into a data model that held /a/d and /c; both are still
\* there
C6_Witness ==
  /\ Processed /\ IsDataModel(Last) /\ Live(before.surfaces, Target(Last))
  /\ Last.updateDataModel.path = Str(Path.ab) /\ ~threw
  /\ TreeAt(Tree(before.heap, OldDataModel), <<Key.a, Key.b>>) = Undef
  /\ TreeAt(Tree(heap, NewDataModel), <<Key.a, Key.b>>) # Undef
  /\ TreeAt(Tree(heap, NewDataModel), <<Key.a, Key.d>>) = Num(2)
  /\ TreeAt(Tree(heap, NewDataModel), <<Key.c>>) = Num(3)

\* C7: an updateDataModel without a value changes nothing, whatever its path
\* and op; one whose value is null or an empty mapping goes through the set:
\* at the root the data model becomes the value, elsewhere the outcome is
\* that of setValueAtPath, and the value is then read back at the path.
C7_UndefinedIsNoOp ==
  /\ (Processed /\ IsDataModel(Last) /\ Last.updateDataModel.value = Undef)
       => (Unchanged /\ ~threw)
  /\ (/\ Processed /\ IsDataModel(Last) /\ Live(before.surfaces, Target(Last))
      /\ Tree(before.heap, Last.updateDataModel.value) \in {Null, EmptyTree}) =>
       IF IsRootPath(Last.updateDataModel.path)
       THEN NewDataModel = Last.updateDataModel.value /\ ~threw
       ELSE LET r == setValueAtPath(before.heap, OldDataModel,
                                    Last.updateDataModel.path.s,
                                    Last.updateDataModel.value)
            IN /\ threw = r.threw
               /\ heap = r.heap
               /\ ~threw => getValueAtPath(heap, NewDataModel,
                                           Last.updateDataModel.path.s)
                              = Last.updateDataModel.value

\* an updateDataModel with op remove and no value named a live surface whose
\* data model had keys, at a path that is not the root
C7_Witness ==
  /\ Processed /\ IsDataModel(Last) /\ Live(before.surfaces, Target(Last))
  /\ Last.updateDataModel.value = Undef
  /\ Last.updateDataModel.op = Str(Word.remove)
  /\ Last.updateDataModel.path = Str(Path.c)
  /\ TreeAt(Tree(heap, NewDataModel), <<Key.c>>) = Num(3)
  /\ Unchanged

\* message k of the array names a surface that an earlier message of the
\* array deleted and no message in between created again
DeletedSince(k) ==
  \E j \in 1..(k - 1) :
    /\ IsDelete(messages[j])
    /\ Target(messages[j]) = Target(messages[k])
    /\ \A i \in (j + 1)..(k - 1) :
         ~(IsCreate(messages[i]) /\ Target(messages[i]) = Target(messages[k]))

\* C8: after deleteSurface(s) surface s is not live and renderSurface(s)
\* returns the empty result; an updateComponents or updateDataModel that
\* names s after that, with no createSurface(s) in between, changes nothing;
\* deleteSurface of an id that is not live changes nothing.
C8_DeletedStaysDeleted ==
  Processed =>
    /\ IsDelete(Last) =>
         /\ ~threw
         /\ ~Live(surfaces, Target(Last))
         /\ renderSurface(surfaces, heap, Target(Last)) = Nothing
         /\ ~Live(before.surfaces, Target(Last)) => Unchanged
    /\ ((IsComponents(Last) \/ IsDataModel(Last)) /\ DeletedSince(LastIndex)) =>
         /\ ~threw
         /\ Unchanged
         /\ ~Live(surfaces, Target(Last))
         /\ renderSurface(surfaces, heap, Target(Last)) = Nothing

\* an array created s1, deleted it and then sent it components
C8_Witness ==
  /\ Len(messages) = 3 /\ pos = 4 /\ ~threw
  /\ IsCreate(messages[1]) /\ IsDelete(messages[2]) /\ IsComponents(messages[3])
  /\ Target(messages[1]) = Str(Id.s1)
  /\ Target(messages[2]) = Str(Id.s1)
  /\ Target(messages[3]) = Str(Id.s1)
  /\ DeletedSince(3)
  /\ ~Live(surfaces, Str(Id.s1))

\* C9: a message leaves every surface other than the one it names as it
\* was: live or not as before, with the same components, data model and
\* catalogId, and rendering to the same tree.
C9_OtherSurfacesUntouched ==
  Processed =>
    \A id \in SurfaceIds :
      id # Target(Last) =>
        /\ Live(surfaces, id) <=> Live(before.surfaces, id)
        /\ Live(before.surfaces, id) =>
             /\ SurfaceView(surfaces, heap, id)
                  = SurfaceView(before.surfaces, before.heap, id)
             /\ renderSurface(surfaces, heap, id)
                  = renderSurface(before.surfaces, before.heap, id)

\* s2 was live and rendered to a text node when a message changed s1
C9_Witness ==
  /\ Processed /\ Target(Last) = Str(Id.s1) /\ ~Unchanged
  /\ Live(before.surfaces, Str(Id.s2))
  /\ renderSurface(before.surfaces, before.heap, Str(Id.s2)).node = "text"
  /\ renderSurface(surfaces, heap, Str(Id.s2)).node = "text"

Surface1 == surfaces.val[Str(Id.s1)]
Shown1 == rendered # None /\ rendered.surfaceId = Str(Id.s1) /\ Live(surfaces, Str(Id.s1))
Out == rendered.outs[Len(rendered.outs)]
Root1 == MapGet(Surface1.components, Str(Id.root))
IsContainer(component) ==
  Field(component, Prop.type) \in {Str(Type.row), Str(Type.column), Str(Type.list)}

C12_ExplicitListOrder ==
  (/\ Shown1 /\ Root1 # Undef /\ IsContainer(Root1)
   /\ HasField(Field(Root1, Prop.children), Prop.explicitList)
   /\ Field(Field(Root1, Prop.children), Prop.explicitList).t = "array") =>
    LET ids == Field(Field(Root1, Prop.children), Prop.explicitList).items
        present == SelectSeq(ids, LAMBDA id : MapHas(Surface1.components, id))
    IN /\ Out.node \in {"row", "column", "list"}
       /\ Len(Out.children) = Len(present)
       /\ \A i \in 1..Len(present) :
            Out.children[i] = renderComponent(heap, Surface1.components.val[present[i]],
                                              Surface1, <<>>, MaxDepth - 1)

\* the list is y, m, x; the map received x, then y, then root, and has no m
C12_Witness ==
  /\ Shown1 /\ Root1 # Undef /\ Field(Root1, Prop.type) = Str(Type.row)
  /\ HasField(Field(Root1, Prop.children), Prop.explicitList)
  /\ Field(Field(Root1, Prop.children), Prop.explicitList).items
       = <<Str(Id.y), Str(Id.m), Str(Id.x)>>
  /\ Surface1.components.keys = <<Str(Id.x), Str(Id.y), Str(Id.root)>>
  /\ Len(Out.children) = 2
  /\ Out.children[1].text = Word.ann
  /\ Out.children[2].text = Word.hi

\* the template of the root of the first surface, when it has one whose
\* component is in the map and whose binding is an array of the data model
Template1 == Field(Field(Root1, Prop.children), Prop.template)
TemplateOverArray ==
  /\ Shown1 /\ Root1 # Undef /\ IsContainer(Root1)
  /\ HasField(Field(Root1, Prop.children), Prop.template)
  /\ MapHas(Surface1.components, Field(Template1, Prop.componentId))
  /\ LET data == getValueAtPath(heap, Surface1.dataModel,
                                Field(Template1, Prop.dataBinding).s)
     IN data.t = "ref" /\ heap[data.a].isArray
TemplateComp == Surface1.components.val[Field(Template1, Prop.componentId)]
Binding == Field(Template1, Prop.dataBinding).s
Elements == ArrayLength(heap[getValueAtPath(heap, Surface1.dataModel, Binding).a])
InstancePath(i) == Binding \o <<"/">> \o numToChars(i - 1)

\* C13: a template bound to an array of n elements renders n instances of
\* the template component, instance i with the context path binding/i-1; an
\* inner Text bound to ./name shows the name of element i.
C13_TemplateOverArray ==
  TemplateOverArray =>
    /\ Len(Out.children) = Elements
    /\ \A i \in 1..Elements :
         /\ Out.children[i] = renderComponent(heap, TemplateComp, Surface1,
                                              InstancePath(i), MaxDepth - 1)
         /\ (/\ Field(TemplateComp, Prop.type) = Str(Type.text)
             /\ Field(TemplateComp, Prop.textProp) = PathBinding(Path.relName)) =>
              Out.children[i].text
                = jsString(heap, Coalesce(getValueAtPath(heap, Surface1.dataModel,
                                                         InstancePath(i) \o Path.name),
                                          Str(<<>>)))

\* items is [{name: x}, {name: y}] and the instances show x, then y
C13_Witness ==
  /\ TemplateOverArray /\ Elements = 2
  /\ Field(TemplateComp, Prop.textProp) = PathBinding(Path.relName)
  /\ Out.node = "list"
  /\ Out.children[1].text = Id.x
  /\ Out.children[2].text = Id.y

\* the property of a Text or Image that renderText and renderImage bind
BoundProp(component) ==
  IF Field(component, Prop.type) = Str(Type.text) THEN Prop.textProp ELSE Prop.url
\* the component with that property bound to another path
Rebound(component, path) ==
  [component EXCEPT !.val[BoundProp(component)] = PathBinding(path)]
\* the template component is a Text or Image bound to a path
TemplateBoundToPath ==
  /\ TemplateOverArray
  /\ Field(TemplateComp, Prop.type) \in {Str(Type.text), Str(Type.image)}
  /\ HasField(Field(TemplateComp, BoundProp(TemplateComp)), Prop.path)
BoundPath == Field(Field(TemplateComp, BoundProp(TemplateComp)), Prop.path).s

BindableProp(component) ==
  CASE Field(component, Prop.type) = Str(Type.text) -> Prop.textProp
    [] Field(component, Prop.type) = Str(Type.image) -> Prop.url
    [] OTHER -> Prop.nameProp
Content(out) ==
  CASE out.node = "text" -> out.text
    [] out.node = "image" -> out.src
    [] out.node = "icon" -> out.name
    [] OTHER -> <<>>
\* what a component shows of a resolved string
Display(component, chars) ==
  IF Field(component, Prop.type) = Str(Type.icon) THEN camelToSnake(chars) ELSE chars

\* C15: a bindable value that carries literalString next to a path or to
\* another literal tag resolves to the literalString, for Text.text,
\* Image.url and Icon.name alike.
C15_LiteralWins ==
  (/\ Shown1 /\ Root1 # Undef
   /\ Field(Root1, Prop.type) \in {Str(Type.text), Str(Type.image), Str(Type.icon)}
   /\ HasField(Field(Root1, BindableProp(Root1)), Prop.literalString)) =>
    Content(Out)
      = Display(Root1,
                jsString(heap, Field(Field(Root1, BindableProp(Root1)),
                                     Prop.literalString)))

\* C16: a Card or Button whose child id is not in the component map renders
\* to its container with nothing in it, and a container whose template names
\* a component that is not in the map renders with no instance; neither
\* ends by an exception.
C16_DanglingTolerated ==
  /\ (/\ Shown1 /\ Root1 # Undef
      /\ Field(Root1, Prop.type) \in {Str(Type.card), Str(Type.button)}
      /\ ~MapHas(Surface1.components, Field(Root1, Prop.child))) =>
       /\ Out.node = (IF Field(Root1, Prop.type) = Str(Type.card)
                      THEN "card" ELSE "button")
       /\ Out.child = Nothing
  /\ (/\ Shown1 /\ Root1 # Undef /\ IsContainer(Root1)
      /\ HasField(Field(Root1, Prop.children), Prop.template)
      /\ ~MapHas(Surface1.components, Field(Template1, Prop.componentId))) =>
       /\ Out.node \in {"row", "column", "list"}
       /\ Out.children = <<>>

\* the root is a Button whose child m is not in the map, and it rendered
C16_Witness ==
  /\ Shown1 /\ Root1 # Undef
  /\ Field(Root1, Prop.type) = Str(Type.button)
  /\ Field(Root1, Prop.child) = Str(Id.m)
  /\ ~MapHas(Surface1.components, Str(Id.m))
  /\ Out.node = "button" /\ Out.child = Nothing

\* C17: renderSurface returns the empty result exactly when the id names no
\* live surface or the surface has no component with id root; otherwise it
\* returns what renderComponent makes of the root component.
C17_EmptySentinel ==
  rendered # None =>
    LET id == rendered.surfaceId
        empty == ~Live(surfaces, id)
                   \/ ~MapHas(surfaces.val[id].components, Str(Id.root))
    IN /\ (Out = Nothing) <=> empty
       /\ ~empty => Out = renderComponent(heap,
                                          surfaces.val[id].components.val[Str(Id.root)],
                                          surfaces.val[id], <<>>, MaxDepth)

\* a live surface with a component y and no root rendered to the empty
\* result
C17_Witness ==
  /\ Shown1
  /\ Surface1.components.keys = <<Str(Id.y)>>
  /\ Out = Nothing

\* the node a Text with usageHint h1 bound to /name renders to in a store
HeadingOf(s, h) ==
  [node |-> "text", tag |-> Lit.h1, usageHint |-> Lit.h1,
   text |-> jsString(h, Coalesce(getValueAtPath(h, s.val[Str(Id.s1)].dataModel, Path.name),
                                 Str(<<>>)))]
HasHeading(s) ==
  Live(s, Str(Id.s1)) /\ MapGet(s.val[Str(Id.s1)].components, Str(Id.root)) = RootHeading

\* C18: when the root is a Text with usageHint h1 bound to an absolute path,
\* renderSurface returns an h1 text node whose content is the value the data
\* model has at that path once the last message is applied; so it was before
\* the last message, with the value of then.
C18_RenderReflectsStore ==
  /\ (Shown1 /\ HasHeading(surfaces)) => Out = HeadingOf(surfaces, heap)
  /\ (Processed /\ HasHeading(before.surfaces)) =>
       renderSurface(before.surfaces, before.heap, Str(Id.s1))
         = HeadingOf(before.surfaces, before.heap)

\* the store rendered to the heading Ann; a later updateDataModel set /name
\* to Bob and the render that followed shows Bob
C18_Witness ==
  /\ Shown1 /\ HasHeading(surfaces) /\ HasHeading(before.surfaces)
  /\ Processed /\ IsDataModel(Last) /\ Len(messages) = 1
  /\ renderSurface(before.surfaces, before.heap, Str(Id.s1)).text = Word.ann
  /\ Out.text = Word.bob
  /\ Out.tag = Lit.h1

\* C19: a call of processMessages whose array has an element of no
\* recognized kind ends by reporting it to the caller, and leaves the store
\* as it was at entry: none of the elements before it is applied.
C19_MalformedBatchAtomic ==
  (\E i \in 1..Len(messages) : messages[i] = NoFields) =>
    /\ threw
    /\ surfaces = entry.surfaces
    /\ heap = entry.heap

\* C20: a call of processMessages with an array of objects returns without
\* an exception, having taken every message of the array, whatever fields
\* the messages lack.
C20_BatchAppliedInFull ==
  messages # <<>> => (~threw /\ pos = Len(messages) + 1)

(***************************************************************************)
(* What the claims about the path resolver speak of.                       *)
(***************************************************************************)
\* C21: an updateDataModel never ends by an exception, whatever the data
\* model holds where the path passes.
C21_SetNeverRaises ==
  (Processed /\ IsDataModel(Last)) => ~threw

DataModel1 == Surface1.dataModel

\* C23: getValueAtPath yields the value at the path when every segment is a
\* key of the mapping or an index of the sequence it is applied to, and
\* undefined in every other case.
C23_GetUndefinedOnMismatch ==
  Live(surfaces, Str(Id.s1)) =>
    \A path \in GetPaths :
      Tree(heap, getValueAtPath(heap, DataModel1, path))
        = TreeAt(Tree(heap, DataModel1), parts(path))

\* the types renderComponent has a case for
Recognized ==
  {Str(Type.text), Str(Type.image), Str(Type.icon), Str(Type.row),
   Str(Type.column), Str(Type.list), Str(Type.card), Str(Type.button),
   Str(Type.textField), Str(Type.divider), Str(Type.slider), Str(Type.checkBox)}
Unrecognized(component) == Field(component, Prop.type) \notin Recognized
Placeholder(component) ==
  [node |-> "unknown", type |-> Field(component, Prop.type).s]

\* C22: a component of a type that is not recognized renders to a
\* placeholder that carries the name of the type, as the root and as a child
\* of a container alike; the container and the other children render as
\* they do beside any other child.
C22_UnknownTypePlaceholder ==
  /\ (Shown1 /\ Root1 # Undef /\ Unrecognized(Root1)) => Out = Placeholder(Root1)
  /\ (/\ Shown1 /\ Root1 # Undef /\ IsContainer(Root1)
      /\ HasField(Field(Root1, Prop.children), Prop.explicitList)) =>
       LET ids == Field(Field(Root1, Prop.children), Prop.explicitList).items
           present == SelectSeq(ids, LAMBDA id : MapHas(Surface1.components, id))
       IN /\ Out.node \in {"row", "column", "list"}
          /\ Len(Out.children) = Len(present)
          /\ \A i \in 1..Len(present) :
               LET comp == Surface1.components.val[present[i]]
               IN IF Unrecognized(comp)
                  THEN Out.children[i] = Placeholder(comp)
                  ELSE Out.children[i] = renderComponent(heap, comp, Surface1, <<>>,
                                                         MaxDepth - 1)

\* a Row of x, u, y where u is a Gauge: the placeholder stands between the
\* two texts
C22_Witness ==
  /\ Shown1 /\ Root1 # Undef /\ Out.node = "row" /\ Len(Out.children) = 3
  /\ Unrecognized(MapGet(Surface1.components, Str(Id.u)))
  /\ Out.children[1].node = "text"
  /\ Out.children[2] = [node |-> "unknown", type |-> Word.gauge]
  /\ Out.children[3].node = "text"

\* the non-empty segments of a path, in order
Segments(path) == SelectSeq(split(path), LAMBDA p : p # <<>>)
WithPath(m, path) == [m EXCEPT !.updateDataModel.path = path]
State == Outcome(surfaces, heap, threw)

\* C24: two paths with the same sequence of non-empty segments name the same
\* place: get returns the same value for both, set through either leaves
\* the same data model, and an updateDataModel whose path has a segment
\* leaves the store it leaves with any other spelling of the path.
C24_PathNormalization ==
  /\ Live(surfaces, Str(Id.s1)) =>
       \A p \in GetPaths : \A q \in GetPaths :
         Segments(p) = Segments(q) =>
           /\ getValueAtPath(heap, DataModel1, p) = getValueAtPath(heap, DataModel1, q)
           /\ \A v \in {Num(7), Null} :
                setValueAtPath(heap, DataModel1, p, v)
                  = setValueAtPath(heap, DataModel1, q, v)
  /\ (/\ Processed /\ IsDataModel(Last)
      /\ Last.updateDataModel.path # Undef
      /\ Segments(Last.updateDataModel.path.s) # <<>>) =>
       \A q \in SetPaths :
         (q # Undef /\ Segments(q.s) = Segments(Last.updateDataModel.path.s)) =>
           processMessage(before.surfaces, before.heap, WithPath(Last, q)) = State

\* 7 was set through "//a//b" and is read through "/a/b" and "a/b/"
C24_Witness ==
  /\ Processed /\ IsDataModel(Last) /\ ~threw
  /\ Last.updateDataModel.path = Str(PathLit.doubled)
  /\ Last.updateDataModel.value = Num(7)
  /\ getValueAtPath(before.heap, OldDataModel, Path.ab) # Num(7)
  /\ getValueAtPath(heap, NewDataModel, Path.ab) = Num(7)
  /\ getValueAtPath(heap, NewDataModel, PathLit.trailing) = Num(7)

\* the last message sets a value at a path with a segment, on a live surface
SetsAtPath ==
  /\ Processed /\ IsDataModel(Last) /\ Live(before.surfaces, Target(Last))
  /\ Last.updateDataModel.value # Undef
  /\ Truthy(Last.updateDataModel.path)
  /\ Segments(Last.updateDataModel.path.s) # <<>>
SetSegments == Segments(Last.updateDataModel.path.s)
OldTree == Tree(before.heap, OldDataModel)
NewTree == Tree(heap, NewDataModel)
Intermediate(k) == SubSeq(SetSegments, 1, k)

\* the data model is a mapping and what is on the way to the place is a
\* mapping or a list, or is not there
WayIsClear ==
  /\ OldTree.t = "object"
  /\ \A k \in 1..(Len(SetSegments) - 1) :
       TreeAt(OldTree, Intermediate(k)) \in {Undef}
         \/ TreeAt(OldTree, Intermediate(k)).t = "object"

\* C25: after an updateDataModel at a path with a segment, on a data model
\* that is a mapping with nothing but mappings on the way, get at the path
\* returns the value of the message, and every intermediate that was not
\* there is a mapping whose one key is the next segment of the path.
C25_SetThenGet ==
  (SetsAtPath /\ WayIsClear) =>
    /\ ~threw
    /\ NewDataModel = OldDataModel
    /\ getValueAtPath(heap, NewDataModel, Last.updateDataModel.path.s)
         = Last.updateDataModel.value
    /\ TreeAt(NewTree, SetSegments) = Tree(before.heap, Last.updateDataModel.value)
    /\ \A k \in 1..(Len(SetSegments) - 1) :
         TreeAt(OldTree, Intermediate(k)) = Undef =>
           /\ TreeAt(NewTree, Intermediate(k)).t = "object"
           /\ ~TreeAt(NewTree, Intermediate(k)).isArray
           /\ TreeAt(NewTree, Intermediate(k)).keys = <<SetSegments[k + 1]>>

\* 7 is set at items/1/name of an empty data model: items and items/1 are
\* made on the way
C25_Witness ==
  /\ SetsAtPath /\ WayIsClear
  /\ SetSegments = <<Key.items, <<"1">>, Key.name>>
  /\ OldTree = EmptyTree
  /\ NewTree.keys = <<Key.items>>
  /\ TreeAt(NewTree, <<Key.items>>).keys = <<<<"1">>>>
  /\ TreeAt(NewTree, <<Key.items, <<"1">>>>).keys = <<Key.name>>
  /\ TreeAt(NewTree, <<Key.items, <<"1">>, Key.name>>) = Num(7)

\* C26: an updateDataModel whose path has no segment ("/", "", no path, or
\* slashes only such as "//"), on a live surface and with a value, makes
\* the value the whole data model and adds no other key.
C26_ZeroSegmentsIsRoot ==
  (/\ Processed /\ IsDataModel(Last) /\ Live(before.surfaces, Target(Last))
   /\ Last.updateDataModel.value # Undef
   /\ \/ Last.updateDataModel.path = Undef
      \/ Segments(Last.updateDataModel.path.s) = <<>>) =>
    /\ ~threw
    /\ NewDataModel = Last.updateDataModel.value
    /\ Tree(heap, NewDataModel) = Tree(before.heap, Last.updateDataModel.value)

WithOp(m, op) == [m EXCEPT !.updateDataModel.op = op]

\* C27: the op of an updateDataModel has no part in the result: the message
\* with op "add", with op "replace" and with no op leaves the same store,
\* from the same store, path and value.
C27_OpIgnored ==
  (Processed /\ IsDataModel(Last)) =>
    \A op \in {Undef, Str(Word.add), Str(Word.replace)} :
      processMessage(before.surfaces, before.heap, WithOp(Last, op)) = State

\* an add at a place that holds a value: the value is written over as a
\* replace does
C27_Witness ==
  /\ Processed /\ IsDataModel(Last) /\ ~threw
  /\ Live(before.surfaces, Target(Last))
  /\ Last.updateDataModel.op = Str(Word.add)
  /\ Last.updateDataModel.path = Str(Path.c)
  /\ Last.updateDataModel.value = Num(7)
  /\ getValueAtPath(before.heap, OldDataModel, Path.c) \notin {Undef, Num(7)}
  /\ getValueAtPath(heap, NewDataModel, Path.c) = Num(7)

\* a property value that is a binding to a relative path
IsRelativeBinding(v) ==
  /\ HasField(v, Prop.path)
  /\ Field(v, Prop.path).t = "string"
  /\ StartsWithDotSlash(Field(v, Prop.path).s)
\* the component with every relative binding made absolute below a context
Absolutized(component, contextPath) ==
  [component EXCEPT !.val =
     [k \in DOMAIN component.val |->
        IF IsRelativeBinding(component.val[k])
        THEN PathBinding(contextPath \o Tail(Field(component.val[k], Prop.path).s))
        ELSE component.val[k]]]
Bindable ==
  {Str(Type.text), Str(Type.image), Str(Type.icon), Str(Type.textField),
   Str(Type.slider), Str(Type.checkBox)}

\* C28: in an instance of a template, with context path P, a binding to
\* "./q" on a bindable property of a component of any type (Text, Image,
\* Icon, TextField, Slider, CheckBox) resolves to the value at P/q: the
\* instance is what the component bound to P/q renders to.
C28_RelativeEveryType ==
  (TemplateOverArray /\ Field(TemplateComp, Prop.type) \in Bindable) =>
    \A i \in 1..Elements :
      Out.children[i] = renderComponent(heap, Absolutized(TemplateComp, InstancePath(i)),
                                        Surface1, <<>>, MaxDepth - 1)

\* the root is a container with a template whose component is in the map
TemplateBound ==
  /\ Shown1 /\ Root1 # Undef /\ IsContainer(Root1)
  /\ ~HasField(Field(Root1, Prop.children), Prop.explicitList)
  /\ HasField(Field(Root1, Prop.children), Prop.template)
  /\ Field(Template1, Prop.dataBinding).t = "string"
  /\ Field(Template1, Prop.dataBinding).s # <<>>
  /\ MapHas(Surface1.components, Field(Template1, Prop.componentId))
BoundData == getValueAtPath(heap, Surface1.dataModel, Binding)
IsMapping(v) == v.t = "ref" /\ ~heap[v.a].isArray
KeyPath(k) == Binding \o <<"/">> \o k

\* C29: a template bound to a mapping renders one instance per key of the
\* mapping, in the order the keys are enumerated, the instance of key k
\* with context path binding/k; a template bound to a scalar, to a path
\* with no value or to an empty collection renders no instance and the
\* render does not raise.
C29_TemplateOverMapping ==
  TemplateBound =>
    /\ Out.node \in {"row", "column", "list"}
    /\ IsMapping(BoundData) =>
         LET keys == ObjectKeys(heap, BoundData.a)
         IN /\ Len(Out.children) = Len(keys)
            /\ \A i \in 1..Len(keys) :
                 Out.children[i] = renderComponent(heap, TemplateComp, Surface1,
                                                   KeyPath(keys[i]), MaxDepth - 1)
    /\ (\/ BoundData.t # "ref"
        \/ ObjectKeys(heap, BoundData.a) = <<>>) => Out.children = <<>>

\* the mapping {b: {name: y}, a: {name: x}} under a template of Text bound
\* to ./name: y, then x
C29_Witness ==
  /\ TemplateBound /\ IsMapping(BoundData)
  /\ Tree(heap, BoundData).keys = <<Key.b, Key.a>>
  /\ Field(TemplateComp, Prop.type) = Str(Type.text)
  /\ Field(TemplateComp, Prop.textProp) = PathBinding(Path.relName)
  /\ Len(Out.children) = 2
  /\ Out.children[1].text = Id.y
  /\ Out.children[2].text = Id.x

\* the surface with every relative binding of every component made absolute
\* below a context
AbsoluteSurface(contextPath) ==
  [Surface1 EXCEPT !.components.val =
     [id \in DOMAIN Surface1.components.val |->
        Absolutized(Surface1.components.val[id], contextPath)]]
Passing ==
  {Str(Type.card), Str(Type.button), Str(Type.row), Str(Type.column),
   Str(Type.list)}

\* C30: the context path of an instance of a template reaches the whole
\* subtree of the instance, through explicit child lists, Card.child and
\* Button.child: every relative binding below the instance resolves
\* against the item of that instance, so the instance is what the subtree
\* renders to with its relative bindings made absolute below the item.
C30_ContextReachesSubtree ==
  (TemplateOverArray /\ Field(TemplateComp, Prop.type) \in Passing) =>
    \A i \in 1..Elements :
      Out.children[i] = renderComponent(heap, TemplateComp,
                                        AbsoluteSurface(InstancePath(i)), <<>>,
                                        MaxDepth - 1)

\* the template of the template component, and what it is bound to
InnerTemplate == Field(Field(TemplateComp, Prop.children), Prop.template)
InnerBinding == Field(InnerTemplate, Prop.dataBinding).s
InnerComp == Surface1.components.val[Field(InnerTemplate, Prop.componentId)]
\* the root expands a template over an array and the template component is
\* a container with a template of its own, over a component with no children
NestedTemplate ==
  /\ TemplateOverArray
  /\ IsContainer(TemplateComp)
  /\ HasField(Field(TemplateComp, Prop.children), Prop.template)
  /\ Field(InnerTemplate, Prop.dataBinding).t = "string"
  /\ MapHas(Surface1.components, Field(InnerTemplate, Prop.componentId))
  /\ ~IsContainer(InnerComp)
ComposedPath(i) ==
  IF StartsWithDotSlash(InnerBinding) THEN InstancePath(i) \o Tail(InnerBinding)
  ELSE InnerBinding
InnerElements(i) ==
  LET data == getValueAtPath(heap, Surface1.dataModel, ComposedPath(i))
  IN IF data.t = "ref" /\ heap[data.a].isArray THEN ArrayLength(heap[data.a]) ELSE 0

\* C31: a template bound to "./q", rendered in an instance of a template
\* with context path P, expands over the collection at P/q, and its
\* instance j has the context path P/q/j.
C31_NestedTemplatePaths ==
  NestedTemplate =>
    \A i \in 1..Elements :
      /\ Len(Out.children[i].children) = InnerElements(i)
      /\ \A j \in 1..InnerElements(i) :
           Out.children[i].children[j]
             = renderComponent(heap, InnerComp, Surface1,
                               ComposedPath(i) \o <<"/">> \o numToChars(j - 1),
                               MaxDepth - 2)

\* the root is a Row, a Column or a List and the render returned its node
LayoutShown ==
  /\ Shown1 /\ Root1 # Undef /\ IsContainer(Root1)
  /\ Out.node \in {"row", "column", "list"}
Alignments == {Lit.start, Lit.center, Lit.end, Lit.stretch}
NoDistribution ==
  \/ ~HasField(Root1, Prop.distribution)
  \/ Field(Root1, Prop.distribution).s \notin DOMAIN DistributionMap
NoAlignment ==
  \/ ~HasField(Root1, Prop.alignment)
  \/ Field(Root1, Prop.alignment).s \notin Alignments

\* C32: a Row, Column or List with no distribution, or with one that is not
\* of the enum, is laid out from the start, and with no alignment, or with
\* one that is not of the enum, is aligned to the center.
C32_LayoutDefaults ==
  LayoutShown =>
    /\ NoDistribution =>
         ("justifyContent" \in DOMAIN Out /\ Out.justifyContent = Lit.flexStart)
    /\ NoAlignment => Out.alignItems = Lit.center

\* a bindable value that resolves to nothing: absent, with neither a literal
\* nor a path, or with a path at which the data model holds nothing
LiteralTags ==
  {Prop.literalString, Prop.literalNumber, Prop.literalBoolean, Prop.literalArray}
Unresolvable(v) ==
  \/ v = Undef
  \/ /\ v.t = "object"
     /\ \A k \in LiteralTags : ~HasField(v, k)
     /\ \/ ~HasField(v, Prop.path)
        \/ /\ Field(v, Prop.path).t = "string"
           /\ getValueAtPath(heap, Surface1.dataModel, Field(v, Prop.path).s) = Undef
RootIs(type) == Shown1 /\ Root1 # Undef /\ Field(Root1, Prop.type) = Str(type)

\* C33: a bindable value that resolves to nothing does not end the render
\* and shows the default of the type: the empty string for the content of
\* a Text, the url of an Image and the label and text of a TextField,
\* unchecked for a CheckBox; a Text with no usageHint, or with one that is
\* not of the enum, has the body role.
C33_UnresolvableDefaults ==
  /\ (RootIs(Type.text) /\ Unresolvable(Field(Root1, Prop.textProp))) =>
       (Out.node = "text" /\ Out.text = <<>>)
  /\ (/\ RootIs(Type.text)
      /\ \/ ~HasField(Root1, Prop.usageHint)
         \/ Field(Root1, Prop.usageHint).s \notin DOMAIN TagMap) =>
       (Out.node = "text" /\ Out.tag = Lit.pTag)
  /\ (RootIs(Type.image) /\ Unresolvable(Field(Root1, Prop.url))) =>
       (Out.node = "image" /\ Out.src = <<>>)
  /\ (RootIs(Type.textField) /\ Unresolvable(Field(Root1, Prop.label))) =>
       (Out.node = "textfield" /\ Out.label = Str(<<>>))
  /\ (RootIs(Type.textField) /\ Unresolvable(Field(Root1, Prop.textProp))) =>
       (Out.node = "textfield" /\ Out.value = Str(<<>>))
  /\ (RootIs(Type.checkBox) /\ Unresolvable(Field(Root1, Prop.valueProp))) =>
       (Out.node = "checkbox" /\ ~Out.checked)

\* the range of the root Slider, with the defaults of the absent ends
SliderMin == Coalesce(Field(Root1, Prop.minValue), Num(0)).n
SliderMax == Coalesce(Field(Root1, Prop.maxValue), Num(100)).n
\* the value of the root Slider is undefined: absent, or bound to a path at
\* which the data model holds nothing
ValueUndefined ==
  \/ ~HasField(Root1, Prop.valueProp)
  \/ /\ HasField(Field(Root1, Prop.valueProp), Prop.path)
     /\ Unresolvable(Field(Root1, Prop.valueProp))

\* C34: a Slider whose value is undefined shows the midpoint of its range
\* [minValue, maxValue], 0 and 100 standing for the absent ends; the value
\* shown lies within the range shown.
C34_SliderMidpoint ==
  (RootIs(Type.slider) /\ ValueUndefined) =>
    /\ Out.node = "slider"
    /\ Out.min = numToChars(SliderMin) /\ Out.max = numToChars(SliderMax)
    /\ Out.value = Num((SliderMin + SliderMax) \div 2)
    /\ SliderMin <= Out.value.n /\ Out.value.n <= SliderMax

\* C35: renderSurface returns for every store the messages can build, a
\* component map in which a component reaches itself through Card.child,
\* Button.child, an explicit list or a template included: no render ends
\* by running out of call stack.
C35_RenderTerminates ==
  (Shown1 /\ Root1 # Undef) => Out # Thrown

\* the value a message of the array carries, as it was when the call began
\* and as it is now
ValueAtEntry(i) == Tree(entry.heap, messages[i].updateDataModel.value)
ValueNow(i) == Tree(heap, messages[i].updateDataModel.value)

\* C36: processMessages leaves the array it was given as it was: after the
\* call the value of every updateDataModel message is what it was before
\* the call, also when a replacement of the whole data model is followed by
\* an update below the root in the same array.
C36_BatchNotModified ==
  Idle =>
    \A i \in 1..Len(messages) :
      IsDataModel(messages[i]) => ValueNow(i) = ValueAtEntry(i)

\* the number of the four fields a message has
FieldCount(m) == Cardinality({f \in DOMAIN m : m[f] # None})
\* the message with the first of its fields, in the order createSurface,
\* updateComponents, updateDataModel, deleteSurface, and no other
Only(m) ==
  IF m.createSurface # None THEN [NoFields EXCEPT !.createSurface = m.createSurface]
  ELSE IF m.updateComponents # None
       THEN [NoFields EXCEPT !.updateComponents = m.updateComponents]
  ELSE IF m.updateDataModel # None
       THEN [NoFields EXCEPT !.updateDataModel = m.updateDataModel]
  ELSE [NoFields EXCEPT !.deleteSurface = m.deleteSurface]
\* the messages of the array that have a field, each with its first field
Effective ==
  LET having == SelectSeq(messages, LAMBDA m : FieldCount(m) > 0)
  IN [i \in 1..Len(having) |-> Only(having[i])]

\* C37: of a message with several of the four fields one is applied, the
\* first in the order createSurface, updateComponents, updateDataModel,
\* deleteSurface, and the others are not; a message with none of them
\* changes nothing and the loop goes on with the message after it.
C37_FieldPriority ==
  /\ (Processed /\ FieldCount(Last) > 0) =>
       processMessage(before.surfaces, before.heap, Only(Last)) = State
  /\ (Processed /\ FieldCount(Last) = 0) => (Unchanged /\ ~threw)
  /\ (Idle /\ ~threw /\ messages # <<>>) =>
       FoldLeft(entry, Effective) = [surfaces |-> surfaces, heap |-> heap]

\* a message with all four fields after the creation of s1: s1 is created
\* anew with the other catalog, keeps no component and is not deleted, and
\* the update after it is applied
C37_Witness ==
  /\ Idle /\ ~threw /\ Len(messages) = 3
  /\ FieldCount(messages[2]) = 4
  /\ Live(surfaces, Str(Id.s1))
  /\ Surface1.catalogId = Str(Id.catB)
  /\ Surface1.components = EmptyMap
  /\ getValueAtPath(heap, DataModel1, Path.c) = Undef
  /\ getValueAtPath(heap, DataModel1, Path.ab) = Num(7)

\* no key occurs twice in the order of insertion of a Map
NoKeyTwice(m) ==
  \A i \in 1..Len(m.keys) : \A j \in 1..Len(m.keys) : m.keys[i] = m.keys[j] => i = j
\* the components of a surface that have the id
WithId(surface, id) ==
  {i \in 1..Len(surface.components.keys) :
     Field(surface.components.val[surface.components.keys[i]], Prop.id) = id}

\* C38: every surface of the store is kept under its own surfaceId and
\* every component under its own id, so a surface has at most one component
\* of an id, and at most one root.
C38_StoreKeys ==
  /\ NoKeyTwice(surfaces)
  /\ \A i \in 1..Len(surfaces.keys) :
       LET surface == surfaces.val[surfaces.keys[i]]
       IN /\ surface.surfaceId = surfaces.keys[i]
          /\ NoKeyTwice(surface.components)
          /\ \A j \in 1..Len(surface.components.keys) :
               Field(surface.components.val[surface.components.keys[j]], Prop.id)
                 = surface.components.keys[j]
          /\ \A j \in 1..Len(surface.components.keys) :
               Cardinality(WithId(surface, surface.components.keys[j])) = 1
          /\ Cardinality(WithId(surface, Str(Id.root))) <= 1

\* s1 was sent an array with two components of the id x after it had a root
\* and an x: it holds one root and one x, the last one
C38_Witness ==
  /\ Processed /\ IsComponents(Last) /\ Target(Last) = Str(Id.s1)
  /\ Last.updateComponents.components.items = <<XText, XDivider>>
  /\ Live(surfaces, Str(Id.s1))
  /\ Surface1.components.keys = <<Str(Id.root), Str(Id.x)>>
  /\ Surface1.components.val[Str(Id.x)] = XDivider

\* the requests whose handler has not reached its end
InFlight == {i \in 1..Len(shell.requests) : shell.requests[i].state # "done"}
\* the entries of the conversation a user wrote
UserEntries(sh) == {k \in 1..Len(sh.messages) : sh.messages[k].role = "user"}
\* the conversation follows the requests: an entry of a later request never
\* stands before an entry of an earlier one, and what a request answered
\* stands right after what it asked
InRequestOrder ==
  /\ \A j, k \in 1..Len(shell.messages) :
       j < k => shell.messages[j].request <= shell.messages[k].request
  /\ \A k \in 1..Len(shell.messages) :
       shell.messages[k].role = "assistant" =>
         /\ k > 1
         /\ shell.messages[k - 1].role = "user"
         /\ shell.messages[k - 1].request = shell.messages[k].request
\* while loading, no step calls client.send or appends a user message
IgnoredWhileLoading ==
  shell.loading =>
    /\ Len(shell'.requests) = Len(shell.requests)
    /\ UserEntries(shell') = UserEntries(shell)

\* C39: in each chat shell at most one request is in flight; a submit or a
\* suggestion click that arrives while loading calls client.send for nothing
\* and appends no user message; the conversation holds the batches in the
\* order of the requests, each right after the message that asked for it.
C39_OneInFlight ==
  /\ [](Cardinality(InFlight) <= 1 /\ InRequestOrder)
  /\ [][IgnoredWhileLoading]_vars

\* the first request was answered with a batch; while the second one is
\* pending a suggestion was clicked, which left its text in the input
C39_Witness ==
  /\ Len(shell.requests) = 2
  /\ shell.requests[1].state = "done" /\ shell.requests[2].state = "pending"
  /\ shell.loading /\ shell.inputValue = Word.suggestion
  /\ Len(shell.messages) = 3
  /\ shell.messages[2].role = "assistant"

AnySettled == \E i \in 1..Len(shell.requests) : Settled(i)
\* nothing of a request is left: loading is false and no timer is scheduled
Finished ==
  /\ ~shell.loading
  /\ shell.phaseInterval = Null
  /\ \A t \in 1..Len(shell.timers) : shell.timers[t].cleared
\* a conversation entry that holds a batch
HoldsBatch(m) == m.a2ui # None \/ m.content.t = "batch"
Batches(sh) == {k \in 1..Len(sh.messages) : HoldsBatch(sh.messages[k])}
\* the handler of request i ends in this step
Ends(i) == Settled(i) /\ shell'.requests[i].state = "done"
AfterSettling ==
  \A i \in 1..Len(shell.requests) :
    /\ Ends(i) =>
         /\ ~shell'.loading
         /\ shell'.phaseInterval = Null
         /\ \A t \in 1..Len(shell'.timers) : shell'.timers[t].cleared
    /\ (Ends(i) /\ shell.requests[i].state = "rejected") =>
         /\ Batches(shell') = Batches(shell)
         /\ shell'.currentA2UI = shell.currentA2UI
\* the phase moves by the handler only once the request has settled: to
\* complete at its end, to the first phase when the next request starts
PhaseKept ==
  /\ AnySettled => shell'.loadingPhase \in {shell.loadingPhase, Complete}
  /\ (~shell.loading /\ ~shell'.loading) =>
       shell'.loadingPhase = shell.loadingPhase
  /\ (shell.loading /\ ~AnySettled) => shell'.loadingPhase < PhasesLength

\* C40: whenever client.send settles, by resolving or by rejecting, loading
\* returns to false and no phase timer remains scheduled; a rejection
\* stores no batch and keeps the batch displayed before; the ticks of the
\* timer stay within the three progress phases and change nothing once the
\* request has settled.
C40_RequestFinishes ==
  /\ [](InFlight = {} => Finished)
  /\ [][AfterSettling /\ PhaseKept]_vars
  /\ (AnySettled ~> Finished)

\* the first request showed a batch; the second went through all three
\* phases and two more ticks, was rejected, and left the batch displayed
C40_Witness ==
  /\ shell.kind = "A2UIStudio.handleSubmit"
  /\ Len(shell.requests) = 2
  /\ shell.requests[1].state = "done" /\ shell.requests[2].state = "done"
  /\ shell.currentA2UI = Batch(<<CreateSurfaceText(Str(Id.s1), Str(Id.catA))>>)
  /\ shell.error = Str(Word.failedToSend)
  /\ shell.loadingPhase = PhasesLength - 1
  /\ Len(shell.messages) = 3
  /\ Finished

====
